---- MODULE Spec2Model ----
(***************************************************************************)
(* Model of the oneswap deployer: the package oneswap_deployer (Client,    *)
(* UniswapManager) and the earlier stand-alone script deploy.py.  One      *)
(* process at a time runs against a state file and a chain that is seen    *)
(* only through its JSON-RPC answers.                                      *)
(*                                                                         *)
(* Strings that pass through a conversion (event values, addresses) are    *)
(* sequences of byte values; other texts (keys, messages) are TLA+ strings.*)
(***************************************************************************)
EXTENDS Integers, Sequences, FiniteSets, TLC

\* ------------------------------------------------------------------ bounds
\* broadcasts accepted by the node over a whole behaviour
MaxTx == 3
\* process starts over a whole behaviour
MaxRuns == 2
\* broadcasts accepted by the node while the operations of a deployed
\* exchange are run
MaxOpsTx == 1

\* ------------------------------------------------------- program constants
\* wait_for_tx(tx_hash, repeat_count=25)
DEFAULT_REPEAT_COUNT == 25
\* MAX_UINT_VALUE (uint_max_value in deploy.py), the uint256 maximum, at a
\* width of 8 bits
MAX_UINT_VALUE == 255

\* logical names handed to smart_deploy (two of the four of the pipeline)
Names == {"WOLT", "DAI"}
\* the key deploy.py keeps its pair record under
PairKey == "UniswapV2PairWOLT2DAI"
Programs == {"oneswap", "deploy"}

\* ------------------------------------------------------------------ values
\* A python value that ends up in a record: a str, a bool or None.
Str(s) == [t |-> "str", s |-> s, b |-> FALSE]
Bool(b) == [t |-> "bool", s |-> <<>>, b |-> b]
None == [t |-> "none", s |-> <<>>, b |-> FALSE]
\* python truthiness of such a value
Truthy(v) == \/ (v.t = "str" /\ Len(v.s) > 0)
             \/ (v.t = "bool" /\ v.b)

\* binascii.hexlify: two lower-case hex digits (as ASCII codes) per byte
HexDigit(n) == IF n < 10 THEN 48 + n ELSE 87 + n
RECURSIVE Hexlify(_)
Hexlify(bytes) ==
    IF bytes = <<>> THEN <<>>
    ELSE <<HexDigit(Head(bytes) \div 16), HexDigit(Head(bytes) % 16)>>
         \o Hexlify(Tail(bytes))

\* bytes.decode() succeeds on the byte strings used here exactly when every
\* byte is ASCII (the others are lone bytes >= 0x80, never valid UTF-8)
IsUtf8(bytes) == \A i \in 1..Len(bytes) : bytes[i] < 128

\* str.rstrip('0'): drop the trailing ASCII '0' characters
RECURSIVE RStripZero(_)
RStripZero(s) ==
    IF s = <<>> THEN <<>>
    ELSE IF s[Len(s)] = 48 THEN RStripZero(SubSeq(s, 1, Len(s) - 1))
    ELSE s

\* An event attribute as the node sends it: key and value are base64 texts,
\* kept here as the bytes they decode to (an empty text decodes to no bytes).
Attr(k, bytes) == [key |-> k, value |-> bytes]

\* The value parse_events stores for one attribute.
DecodeValueNoHex(raw) == Str(raw)
DecodeValue(raw) ==
    IF raw = <<>> THEN Str(<<>>)
    ELSE IF IsUtf8(raw) THEN Str(raw)
    ELSE Str(Hexlify(raw))

\* parse_events: every attribute of every event, in order, later keys winning.
RECURSIVE ParseAttrs(_, _)
ParseAttrs(attrs, data) ==
    IF attrs = <<>> THEN data
    ELSE LET a == Head(attrs)
             d == [k \in DOMAIN data \cup {a.key} |->
                      IF k = a.key THEN DecodeValue(a.value) ELSE data[k]]
         IN ParseAttrs(Tail(attrs), d)

RECURSIVE ParseEventsFrom(_, _)
ParseEventsFrom(events, data) ==
    IF events = <<>> THEN data
    ELSE ParseEventsFrom(Tail(events), ParseAttrs(Head(events).attributes, data))

EmptyDict == [k \in {} |-> None]
parse_events(events) == ParseEventsFrom(events, EmptyDict)

\* dict.get(key): None when the key is absent
Get(data, k) == IF k \in DOMAIN data THEN data[k] ELSE None

\* ------------------------------------------------------------ the chain
\* What the node answers to query.Tx once a transaction is mined.  A mined
\* transaction either took effect ("ok") or did not ("failed"); the shapes
\* list the answers the client may then read.
OkShapes == {"ok", "ok_emptyerr"}
FailedShapes == {"revert", "code1", "code2", "code2_status"}
Shapes == OkShapes \cup FailedShapes

\* raw 20-byte address of the contract created by transaction h (one byte here)
ContractBytes(h) == <<160 + h>>
\* b'\x01' and b'\x00': the VM status word
StatusOne == <<1>>
StatusZero == <<0>>
\* b'rev': the VM's revert message
RevertBytes == <<114, 101, 118>>

Event(attrs) == [attributes |-> attrs]

\* tx_result of transaction h (a constructor when ctor) in the given shape
TxResult(shape, h, ctor) ==
    LET made == IF ctor THEN <<Attr("tx.contract", ContractBytes(h))>> ELSE <<>>
    IN CASE shape = "ok" ->
              [code |-> 0, log |-> "",
               events |-> <<Event(made \o <<Attr("tx.status", StatusOne)>>)>>]
         [] shape = "ok_emptyerr" ->
              [code |-> 0, log |-> "",
               events |-> <<Event(made \o <<Attr("tx.status", StatusOne)>>),
                            Event(<<Attr("tx.error", <<>>)>>)>>]
         [] shape = "revert" ->
              [code |-> 0, log |-> "",
               events |-> <<Event(<<Attr("tx.status", StatusZero),
                                    Attr("tx.error", RevertBytes)>>)>>]
         [] shape = "code1" ->
              [code |-> 1, log |-> "out of gas", events |-> <<>>]
         [] shape = "code2" ->
              [code |-> 2, log |-> "bad signature", events |-> <<>>]
         [] shape = "code2_status" ->
              [code |-> 2, log |-> "bad signature",
               events |-> <<Event(<<Attr("tx.status", StatusZero)>>)>>]

NoResult == [code |-> -1, log |-> "", events |-> <<>>]

\* the pair contract's address as getPair returns it
PairAddr == Str(<<112>>)

\* ------------------------------------------------------------------ state
VARIABLES
    prog,          \* which program the operator runs: oneswap.py or deploy.py
    run,           \* process starts so far
    pc,            \* where the running process is; "off" when none runs
    op,            \* the domain operation in progress (or the last one)
    key,           \* its logical name
    phase,         \* deploy.py add_default_liquidity_with_eth: 1 before, 2 after the transaction
    outcome,       \* "none", "running", "returned", "raised", "crashed"
    state,         \* UniswapManager._state / deploy.py deployment
    file,          \* the records of the state file
    fileStatus,    \* "missing", "broken" or "ok"
    txs,           \* the chain: transactions accepted by broadcast.TxSync, by hash
    pool,          \* the WOLT/DAI pair: "none", "empty", "lopsided" or "funded"
    txHash,        \* execute_smart_contract: transaction_hash (0 before broadcast)
    repeat_count,  \* wait_for_tx: repeat_count
    calls,         \* RPC requests issued by the operation, per method
    resp,          \* wait_for_tx: tx_result of the answer that ended the loop
    waitRet,       \* what wait_for_tx returned
    ret,           \* what the operation returned
    err,           \* the exception that ended the operation
    notMined,      \* query.Tx answers of the operation that carried an error
    rpcErr,        \* the method whose answer carried an error and ended the operation
    first,         \* per name, the address the first returning smart_deploy gave
    prior,         \* first[key] when the operation began
    trail,         \* stages the operation's execute_smart_contract went through, in order
    query,         \* call_method: the contract function being queried
    force,         \* add_liquidity / add_liquidity_OLT: force
    value,         \* erc20_approve: value; swap: amount, in tokens
    allowance,     \* the chain: the router's allowance on the token
    pair,          \* get_reserves: pair_address
    before,        \* what was read before the decision: reserves, or <<allowance>> (<<>> until read)
    after,         \* add liquidity: reserves read after the transaction (<<>> until read)
    amount,        \* slippage: amount, as decimal digits
    slippage,      \* slippage: two slippage values, in thousandths of a percent
    slippaged,     \* slippage: per function, the amounts returned for the two values
    tokens,        \* sort_tokens: tokenA and tokenB, as texts
    sorted,        \* sort_tokens: what the call gave (None until called)
    procs,         \* two runs side by side: per process, its position and its self.state
    wire,          \* the JSON-RPC requests sent, in order (when they are recorded)
    id,            \* Client.id
    call_data,     \* the dict last passed to call_method / execute_method
    params,        \* what prepare_payload made of it, with the nonce once fetched
    tasks,         \* asyncio.gather: per coroutine, the await it is suspended at
    initial_data,  \* UniswapManager._initial_data (when the requests are recorded)
    sl,            \* SwapList._data: the swap list, name to address
    supply,        \* the chain: totalSupply of DAI, in tokens
    balance,       \* the chain: the deployer's balance, in tokens
    step,          \* test_deploy / main: the call the command is at (0 when none runs)
    args,          \* swap: the options of the command
    paths          \* swap: the router calls made, each with its path

vars == <<prog, run, pc, op, key, phase, outcome, state, file, fileStatus, txs,
          pool, txHash, repeat_count, calls, resp, waitRet, ret, err, notMined,
          rpcErr, first, prior, trail, query, force, value, allowance, pair,
          before, after, amount, slippage, slippaged, tokens, sorted, procs,
          wire, id, call_data, params, tasks, initial_data, sl, supply, balance,
          step, args, paths>>

\* the inputs and results of the slippage calculations
slipvars == <<amount, slippage, slippaged>>
\* the swap list, the chain's balances and a command's own variables
cmdvars == <<sl, supply, balance, step, args, paths>>
\* what the operations of a single run leave alone
sidevars == <<slipvars, tokens, sorted, procs, cmdvars>>
\* the swap list test_deploy leaves behind: both tokens of the pair
SwapListed == [n \in Names |-> Str(<<65>>)]
\* no command of several calls in progress; the swap list of a deployed
\* exchange holds both tokens, that of none is empty
CommandIdle ==
    /\ sl = IF state = EmptyDict THEN EmptyDict ELSE SwapListed
    /\ supply = 0
    /\ balance = 0
    /\ step = 0
    /\ args = None
    /\ paths = <<>>
\* nothing sorted, no second process
SideIdle ==
    /\ tokens = <<>>
    /\ sorted = None
    /\ procs = <<>>
    /\ CommandIdle
\* the requests and the payloads behind them
wirevars == <<wire, id, call_data, params, tasks, initial_data>>
\* the requests are not recorded
Untraced == <<[method |-> "untraced", id |-> 0, params |-> None]>>
WireIdle ==
    /\ wire = Untraced
    /\ id = 0
    /\ call_data = None
    /\ params = None
    /\ tasks = <<>>
    /\ initial_data = None
NotCalculated == [min |-> <<>>, max |-> <<>>]

ZeroCalls == [account |-> 0, create |-> 0, broadcast |-> 0, tx |-> 0, evmcall |-> 0]
NoError == [kind |-> "", msg |-> "", details |-> "", data |-> None]
NotReturned == [returned |-> FALSE, events |-> EmptyDict]
Returned(events) == [returned |-> TRUE, events |-> events]
Record(address, tx_hash) == [address |-> address, tx_hash |-> tx_hash]

Init ==
    /\ prog \in Programs
    /\ run = 0
    /\ pc = "off"
    /\ op = "none"
    /\ key = ""
    /\ phase = 0
    /\ outcome = "none"
    /\ state = EmptyDict
    /\ file = EmptyDict
    /\ fileStatus \in {"missing", "broken"}
    /\ txs = <<>>
    /\ pool = "none"
    /\ txHash = 0
    /\ repeat_count = 0
    /\ calls = ZeroCalls
    /\ resp = NoResult
    /\ waitRet = NotReturned
    /\ ret = None
    /\ err = NoError
    /\ notMined = 0
    /\ rpcErr = ""
    /\ first = [n \in Names |-> None]
    /\ prior = None
    /\ trail = <<>>
    /\ query = ""
    /\ force = FALSE
    /\ value = 0
    /\ allowance = 0
    /\ pair = None
    /\ before = <<>>
    /\ after = <<>>
    /\ amount = <<>>
    /\ slippage = <<0, 0>>
    /\ slippaged = NotCalculated
    /\ SideIdle
    /\ WireIdle

\* ------------------------------------------------- the code's decisions
\* exception classes: the package has its own, deploy.py raises ValueError
WaitErrorKind == IF prog = "oneswap" THEN "WaitError" ELSE "ValueError"
ApiErrorKind == IF prog = "oneswap" THEN "ProtocolAPIError" ELSE "ValueError"
Error(kind, msg, details, data) ==
    [kind |-> kind, msg |-> msg, details |-> details, data |-> data]

\* load_state / the module-level load of deploy.py: a missing or broken file
\* leaves the mapping empty
load_state_skipped == EmptyDict
load_state_unguarded == file
load_state == IF fileStatus = "ok" THEN file ELSE EmptyDict

\* self._state[key] = value
Assign(st, k, v) == [x \in DOMAIN st \cup {k} |-> IF x = k THEN v ELSE st[x]]

\* ujson.dump(self._state, f): the whole mapping replaces the file's content
DumpStale(st) == file
DumpMerged(st) == st @@ file
Dump(st) == st

\* smart_deploy: "if abi_name in self._state"
IsCachedNever(st, name) == FALSE
IsCached(st, name) == name \in DOMAIN st

\* resp.get('error'): whether the answer to a request carries an error
Answers == {"result", "error"}
HasError(answer) == answer = "error"

\* create_raw_tx: "if resp.get('error')"
RawTxRejectedNever(answer) == FALSE
RawTxRejected(answer) == HasError(answer)

\* wait_for_tx: "while repeat_count"
LoopGuardOffByOne(rc) == rc > 1
LoopGuard(rc) == rc # 0

\* wait_for_tx: "if tx_result['code'] == 1"
CodeFailed(code) == code = 1

\* wait_for_tx: "if events.get('tx.error')"
HasTxErrorNever(events) == FALSE
HasTxError(events) == Truthy(Get(events, "tx.error"))

\* bool(binascii.hexlify(result['tx.status'].encode()).decode().rstrip('0'))
StatusBoolUnstripped(v) == Hexlify(v.s) # <<>>
StatusBool(v) == RStripZero(Hexlify(v.s)) # <<>>

\* execute_smart_contract after wait_for_tx: the first element of the pair
\* it returns, or None where result['tx.status'] raises KeyError
ExecuteValue(events) ==
    IF Truthy(Get(events, "tx.contract")) THEN events["tx.contract"]
    ELSE IF "tx.status" \in DOMAIN events THEN Bool(StatusBool(events["tx.status"]))
    ELSE None

\* execute_smart_contract: the await that follows each one that succeeded
NextStageSkipsCreate(p) ==
    CASE p = "account" -> "broadcast"
      [] p = "create" -> "broadcast"
      [] p = "broadcast" -> "poll"
NextStage(p) ==
    CASE p = "account" -> "create"
      [] p = "create" -> "broadcast"
      [] p = "broadcast" -> "poll"

\* ------------------------------------------------ UniswapUtils: slippage
\* python ints of any size, as decimal digits, most significant first; the
\* arithmetic is done on groups of four digits
Front(a) == SubSeq(a, 1, Len(a) - 1)
Pad(n) == [i \in 1..n |-> 0]
Pow10(n) == <<1>> \o Pad(n)
First(S) == CHOOSE i \in S : \A j \in S : i <= j
Last(S) == CHOOSE i \in S : \A j \in S : i >= j

Strip(a) ==
    LET nonzero == {i \in 1..Len(a) : a[i] # 0}
    IN IF nonzero = {} THEN <<0>> ELSE SubSeq(a, First(nonzero), Len(a))

ToLimbs(a) ==
    LET n == (Len(a) + 3) \div 4
        p == Pad(4 * n - Len(a)) \o a
    IN [k \in 1..n |-> p[4 * k - 3] * 1000 + p[4 * k - 2] * 100
                        + p[4 * k - 1] * 10 + p[4 * k]]

FromLimbs(l) ==
    [i \in 1..(4 * Len(l)) |->
        LET limb == l[(i - 1) \div 4 + 1]
            place == (i - 1) % 4
        IN CASE place = 0 -> limb \div 1000
             [] place = 1 -> (limb \div 100) % 10
             [] place = 2 -> (limb \div 10) % 10
             [] OTHER -> limb % 10]

Digits(n) == Strip(FromLimbs(<<n \div 100000000, (n \div 10000) % 10000, n % 10000>>))

\* comparison: -1, 0 or 1
CmpSameLen(a, b) ==
    LET differ == {i \in 1..Len(a) : a[i] # b[i]}
    IN IF differ = {} THEN 0
       ELSE IF a[First(differ)] < b[First(differ)] THEN -1 ELSE 1

Cmp(a, b) ==
    IF Len(a) < Len(b) THEN -1
    ELSE IF Len(a) > Len(b) THEN 1
    ELSE CmpSameLen(a, b)

\* l * m + carry on groups, for an int m of at most five digits
RECURSIVE TimesLimbs(_, _, _)
TimesLimbs(l, m, carry) ==
    IF l = <<>>
    THEN <<carry \div 10000, carry % 10000>>
    ELSE LET t == l[Len(l)] * m + carry
         IN Append(TimesLimbs(Front(l), m, t \div 10000), t % 10000)

Mul(a, m) == Strip(FromLimbs(TimesLimbs(ToLimbs(a), m, 0)))

\* a + 1
Inc(a) ==
    LET notnine == {i \in 1..Len(a) : a[i] # 9}
    IN IF notnine = {} THEN Pow10(Len(a))
       ELSE [i \in 1..Len(a) |->
                IF i < Last(notnine) THEN a[i]
                ELSE IF i = Last(notnine) THEN a[i] + 1 ELSE 0]

\* a - b for a >= b of the same length: a digit borrows when what follows it
\* in a is less than what follows it in b
Minus(a, b) ==
    [i \in 1..Len(a) |->
        LET borrow == IF CmpSameLen(SubSeq(a, i + 1, Len(a)),
                                    SubSeq(b, i + 1, Len(b))) < 0
                      THEN 1 ELSE 0
        IN (a[i] - b[i] - borrow + 10) % 10]

\* abs(a - b)
AbsDiff(a, b) ==
    LET hi == IF Cmp(a, b) >= 0 THEN a ELSE b
        lo == IF Cmp(a, b) >= 0 THEN b ELSE a
    IN Strip(Minus(hi, Pad(Len(hi) - Len(lo)) \o lo))

\* the precision of the decimal context the product is computed in
DecimalPrec == 28

\* a product of Decimals: the coefficient rounded half-even to the
\* precision of the context; gives the coefficient kept and the number of
\* digits dropped
QuantizeTruncating(c) ==
    IF Len(c) <= DecimalPrec THEN <<c, 0>>
    ELSE <<SubSeq(c, 1, DecimalPrec), Len(c) - DecimalPrec>>
Quantize(c) ==
    IF Len(c) <= DecimalPrec THEN <<c, 0>>
    ELSE LET kept == SubSeq(c, 1, DecimalPrec)
             rest == SubSeq(c, DecimalPrec + 1, Len(c))
             half == <<5>> \o Pad(Len(rest) - 1)
             up == \/ CmpSameLen(rest, half) > 0
                   \/ rest = half /\ kept[DecimalPrec] % 2 = 1
         IN <<IF up THEN Inc(kept) ELSE kept, Len(rest)>>

\* round(slippage, 2) of a Decimal given in thousandths: hundredths, half-even
round2(thousandths) ==
    LET q == thousandths \div 10
        r == thousandths % 10
    IN IF r > 5 \/ (r = 5 /\ q % 2 = 1) THEN q + 1 ELSE q

\* Web3.fromWei(amount, 'wei') * Decimal(1 -+ spercent), then Web3.toWei(.., 'wei'):
\* the amount times a factor given in ten-thousandths, rounded as a product
\* of Decimals, and int() of it, which drops the fraction
Slippaged(n, factor) ==
    LET product == Quantize(Mul(n, factor))
        c == product[1]
        places == 4 - product[2]
    IN IF places <= 0 THEN Strip(c \o Pad(-places))
       ELSE IF Len(c) <= places THEN <<0>>
       ELSE SubSeq(c, 1, Len(c) - places)

\* _get_change(current, previous) > slippage, the slippage in hundredths: the
\* change is 100 * abs(current - previous) / previous rounded to hundredths
\* (half-even), 0 for equal arguments and inf for a previous of 0
ChangeAboveNever(current, previous, s) == FALSE
ChangeAbove(current, previous, s) ==
    IF current = previous THEN FALSE
    ELSE IF previous = <<0>> THEN TRUE
    ELSE LET c == Cmp(Mul(AbsDiff(current, previous), 20000), Mul(previous, 2 * s + 1))
         IN c > 0 \/ (c = 0 /\ s % 2 = 1)

\* Decimal(1 - spercent) and Decimal(1 + spercent), in ten-thousandths
OneMinus(s) == 10000 - s
OnePlusSubtracts(s) == 10000 - s
OnePlus(s) == 10000 + s

calculate_min_slippage_amount(n, s) ==
    LET slippaged_ == Slippaged(n, OneMinus(round2(s)))
    IN IF ChangeAbove(slippaged_, n, round2(s)) THEN <<0>> ELSE slippaged_

calculate_max_slippage_amount(n, s) ==
    Slippaged(n, OnePlus(round2(s)))

\* ---------------------------------------------------- shared conjuncts
Bump(method) == [calls EXCEPT ![method] = @ + 1]

Ends(out, r, e) ==
    /\ outcome' = out
    /\ ret' = r
    /\ err' = e
    /\ repeat_count' = 0
    /\ phase' = 0
    /\ UNCHANGED txHash

\* an exception that the caller swallows: the process goes on with its
\* next operation
RaiseAndGoOn(e) ==
    /\ Ends("raised", None, e)
    /\ pc' = "idle"
    /\ UNCHANGED <<state, file, fileStatus, first>>

\* an unhandled exception ends the process; nothing is written on the way
Raise(e) ==
    /\ Ends("raised", None, e)
    /\ pc' = "off"
    /\ state' = EmptyDict
    /\ UNCHANGED <<file, fileStatus, first>>

Return(r) ==
    /\ Ends("returned", r, NoError)
    /\ pc' = "idle"

\* the operation goes on to its next request
Goto(p) ==
    /\ pc' = p
    /\ UNCHANGED <<outcome, ret, err, phase, txHash, repeat_count, state, file,
                   fileStatus, first>>

RecordFirst(name, address) ==
    first' = IF first[name] = None THEN [first EXCEPT ![name] = address] ELSE first

\* update_state / "deployment[key] = ...; update_file_config()"
Persist(k, v) ==
    /\ state' = Assign(state, k, v)
    /\ file' = Dump(Assign(state, k, v))
    /\ fileStatus' = "ok"

\* ------------------------------------------------- requests and payloads
Traced == wire # Untraced

\* key material: the deployer's private key and what is derived from it
DEPLOYER_PK == [kind |-> "private_key", owner |-> "deployer"]
KeyItself(pk) == pk
get_address_from_private_key(pk) == [kind |-> "address", owner |-> pk.owner]

\* tx_sign: the public bytes of the key and its signature over the data
tx_sign(raw, pk) ==
    <<[kind |-> "public_key", owner |-> pk.owner],
      [kind |-> "signature", owner |-> pk.owner, over |-> raw]>>

get_signed_params(raw_tx, pk) ==
    LET signed == tx_sign(raw_tx, pk)
    IN [rawTx |-> raw_tx,
        signature |-> signed[2],
        publicKey |-> [keyType |-> "ed25519", data |-> signed[1]]]

\* resp["result"]["rawTx"] for the transaction the operation creates
RawTx == [kind |-> "raw_tx", fn |-> key]

\* an int, and the pair {"currency": "OLT", "value": str(n)}, n as digits
Raw(digits) == [kind |-> "int", currency |-> "", value |-> digits]
Coin(digits) == [kind |-> "pair", currency |-> "OLT", value |-> digits]

\* str(n * 10 ** k)
Shifted(digits, k) == IF digits = <<0>> THEN <<0>> ELSE digits \o Pad(k)
\* to_wei, for a whole number of tokens
to_wei(digits) == Shifted(digits, 18)

\* the dict handed to call_method / execute_method ("to" and "data" are set
\* by them, "" stands for a key that is absent; none of the dicts the two
\* programs build has a "nonce")
Dict(amount_, gas, gasPrice) ==
    [amount |-> amount_, gas |-> gas, gasPrice |-> gasPrice, to |-> "",
     data |-> "", nonce |-> ""]

\* deploy.py: the literals of deploy_wolt ..., of the queries and of
\* check_is_approved_or_approve, and of add_default_liquidity_with_eth, whose
\* amount0 main() gives as 1_000_000
DeployData == Dict(Raw(<<0>>), 5000000, Raw(<<1>>))
CallData == Dict(Raw(<<0>>), 1000000, Raw(<<1>>))
LiquidityData == Dict(Raw(<<1, 0, 0, 0, 0, 0, 0>>), 10000000, Raw(<<1>>))

\* the package: DEFAULT_DATA, a deep copy of which get_initial_data returns
DEFAULT_DATA == Dict(Coin(<<0>>), 10000000, Coin(Shifted(<<1>>, 9)))
\* copy.deepcopy(self._initial_data)
get_initial_data == initial_data
\* what the template is once an operation has written into the copy it
\* took: untouched, where a copy of the outer dict alone would share the
\* nested "amount"
ShallowCopied(template, d) == [template EXCEPT !.amount = d.amount]
DeepCopied(template, d) == template
\* data["amount"]["value"] = str(amount)
WithAmount(d, digits) == [d EXCEPT !.amount = Coin(digits)]

\* the amount argument of the operation, in base units
AmountArg == IF value = 0 THEN <<0>> ELSE to_wei(Digits(value))

\* the dict the operation passes to the call it is about to make: a fresh
\* one, or the one it passed before
Passed ==
    IF op = "execute_smart_contract" THEN call_data
    ELSE IF prog = "deploy"
    THEN CASE op = "smart_deploy" -> DeployData
           [] op = "check_is_approved_or_approve" ->
                  IF pc = "al_account" THEN CallData ELSE call_data
           [] OTHER ->
                  CASE pc = "gp_account" -> CallData
                    [] pc = "gr_account" -> call_data
                    [] OTHER -> LiquidityData
    ELSE CASE op = "smart_deploy" -> WithAmount(get_initial_data, <<0>>)
           [] op \in {"swap", "swap_exact_OLT_for_tokens"}
                /\ query = "swapExactETHForTokens" ->
                  IF pc = "call_nonce"
                  THEN WithAmount(get_initial_data, AmountArg)
                  ELSE call_data
           [] op = "add_liquidity_OLT" /\ pc = "account" ->
                  WithAmount(get_initial_data, AmountArg)
           [] OTHER -> get_initial_data

\* the contract function the call in progress is for
Fn ==
    CASE pc = "account" -> key
      [] pc = "gp_account" -> "getPair"
      [] pc = "gr_account" -> "getReserves"
      [] OTHER -> query

\* call_method / execute_method: data["to"] = ..., data["data"] = ...; a
\* constructor goes without "to"
Targeted(d) ==
    [d EXCEPT !.to = IF op = "smart_deploy" THEN "" ELSE "0lt{contract_address}",
              !.data = Fn]

\* prepare_payload of deploy.py scales amount and gasPrice, the one of the
\* package takes them as they are; both add "from"
prepare_payload(d) ==
    [from |-> get_address_from_private_key(DEPLOYER_PK),
     to |-> d.to,
     amount |-> IF prog = "deploy" THEN Coin(Shifted(d.amount.value, 18))
                ELSE d.amount,
     gas |-> d.gas,
     gasPrice |-> IF prog = "deploy" THEN Coin(Shifted(d.gasPrice.value, 9))
                  ELSE d.gasPrice,
     data |-> d.data,
     nonce |-> d.nonce]

\* "data = data.copy()": what the caller's dict is after prepare_payload
NotCopied(d, payload) ==
    [d EXCEPT !.amount = payload.amount, !.gasPrice = payload.gasPrice]
Copied(d, payload) == d

\* 'if "nonce" not in params: params["nonce"] = ...': the nonce of the
\* account as the node just reported it ("latest"), unless the caller gave one
HasNonce(p) == p.nonce # ""
Nonced(p) == IF HasNonce(p) THEN p ELSE [p EXCEPT !.nonce = "latest"]

\* execute_smart_contract: the package awaits get_nonce inside the test for
\* the nonce, deploy.py awaits get_evm_account before it
QueriesAccount(p) == prog = "deploy" \/ ~HasNonce(p)

\* deploy.py rpc_call: "id": 123
FixedId == 123

\* _rpc_call / rpc_call: the request that goes out
Send(method, p) ==
    IF Traced
    THEN /\ id' = IF prog = "oneswap" THEN id + 1 ELSE id
         /\ wire' = Append(wire, [method |-> method,
                                  id |-> IF prog = "oneswap" THEN id + 1 ELSE FixedId,
                                  params |-> p])
    ELSE UNCHANGED <<wire, id>>

\* the requests of an operation that has its payload
Sends(method, p) ==
    Send(method, p) /\ UNCHANGED <<call_data, params, tasks, initial_data>>
SendsPayload(method) == Sends(method, Nonced(params))
SendsTx == Sends("query.Tx", [hash |-> txHash, prove |-> TRUE])

\* deploy.py prepare_payload on a dict whose amount is no number any more:
\* data["amount"] * 10 ** 18 raises TypeError
PrepareRaises ==
    /\ Traced
    /\ prog = "deploy"
    /\ (Targeted(Passed).amount.kind # "int" \/ Targeted(Passed).gasPrice.kind # "int")

\* the manager's template after the operation filled in the dict it passes
\* (deploy.py has no template: its dicts are literals)
Templates(passed) ==
    initial_data' = IF prog = "oneswap" THEN DeepCopied(initial_data, passed)
                    ELSE initial_data

\* the first request of call_method and of execute_smart_contract: the
\* payload is prepared, then the account is queried for the nonce
Prepares ==
    IF Traced
    THEN LET passed == Targeted(Passed)
             payload == prepare_payload(passed)
         IN /\ call_data' = Copied(passed, payload)
            /\ params' = payload
            /\ Send("query.EVMAccount",
                    [address |-> payload.from, blockTag |-> "latest"])
            /\ Templates(passed)
            /\ UNCHANGED tasks
    ELSE UNCHANGED wirevars

\* the payload is prepared and, carrying a nonce, needs no account query
PreparesOnly ==
    LET passed == Targeted(Passed)
        payload == prepare_payload(passed)
    IN /\ call_data' = Copied(passed, payload)
       /\ params' = payload
       /\ Templates(passed)
       /\ UNCHANGED <<wire, id, tasks>>

\* the TypeError leaves prepare_payload before any request is made
PrepareFails ==
    /\ Raise(Error("TypeError", "unsupported operand type(s) for *", "", None))
    /\ UNCHANGED <<prog, run, op, key, prior, force, value, allowance, sidevars,
                   query, pair, before, after, txs, pool, resp, waitRet,
                   notMined, calls, rpcErr, trail, wirevars>>

\* ------------------------------------------------------------- process
\* A process starts: cli() builds the manager and loads the state file.
Start ==
    /\ pc = "off"
    /\ run < MaxRuns
    /\ run' = run + 1
    /\ pc' = "idle"
    /\ state' = load_state
    /\ op' = "none"
    /\ key' = ""
    /\ outcome' = "none"
    /\ calls' = ZeroCalls
    /\ resp' = NoResult
    /\ waitRet' = NotReturned
    /\ ret' = None
    /\ err' = NoError
    /\ notMined' = 0
    /\ rpcErr' = ""
    /\ txHash' = 0
    /\ prior' = None
    /\ trail' = <<>>
    /\ query' = ""
    /\ pair' = None
    /\ before' = <<>>
    /\ after' = <<>>
    /\ UNCHANGED <<prog, phase, file, fileStatus, txs, pool, repeat_count, first,
                   force, value, allowance, sidevars,
                   wirevars>>

\* The command returns and the process ends.
Exit ==
    /\ pc = "idle"
    /\ pc' = "off"
    /\ state' = EmptyDict
    /\ UNCHANGED <<prog, run, op, key, phase, outcome, file, fileStatus, txs, pool,
                   txHash, repeat_count, calls, resp, waitRet, ret, err, notMined,
                   rpcErr, first, prior, trail, query, force, value, allowance, pair,
                   before, after, sidevars,
                   wirevars>>

\* The process is killed while an operation waits for the network.
Crash ==
    /\ pc \notin {"off", "idle"}
    /\ pc' = "off"
    /\ state' = EmptyDict
    /\ Ends("crashed", None, NoError)
    /\ UNCHANGED <<prog, run, op, key, file, fileStatus, txs, pool, calls, resp,
                   waitRet, notMined, rpcErr, first, prior, trail, query, force,
                   value, allowance, pair, before, after, sidevars,
                   wirevars>>

\* what every operation resets when it begins
BeginWith(o, k, p, f, v) ==
    /\ op' = o
    /\ key' = k
    /\ prior' = p
    /\ force' = f
    /\ value' = v
    /\ calls' = ZeroCalls
    /\ resp' = NoResult
    /\ waitRet' = NotReturned
    /\ notMined' = 0
    /\ rpcErr' = ""
    /\ trail' = <<>>
    /\ pair' = None
    /\ before' = <<>>
    /\ after' = <<>>
    /\ UNCHANGED <<prog, run, txs, pool, allowance, sidevars,
                   wirevars>>

Begin(o, k, p) == BeginWith(o, k, p, FALSE, 0) /\ query' = ""

Running(p, ph) ==
    /\ outcome' = "running"
    /\ pc' = p
    /\ phase' = ph
    /\ ret' = None
    /\ err' = NoError
    /\ txHash' = 0
    /\ UNCHANGED <<repeat_count, state, file, fileStatus, first>>

\* smart_deploy(name): the cached branch returns at once, the other starts
\* execute_smart_contract(name, 'constructor', ...).
SmartDeploy(name) ==
    /\ pc = "idle"
    /\ Begin("smart_deploy", name, first[name])
    /\ IF IsCached(state, name)
       THEN /\ Return(state[name].address)
            /\ RecordFirst(name, state[name].address)
            /\ UNCHANGED <<state, file, fileStatus>>
       ELSE Running("account", 0)

\* what a request of the operation in progress leaves alone
InOp == UNCHANGED <<prog, run, op, key, prior, force, value, allowance, sidevars>>

\* execute_smart_contract touches none of the locals of the queries around it
InExecute == InOp /\ UNCHANGED <<query, pair, before, after>>

\* ------------------------------------------- execute_smart_contract
\* get_nonce: query.EVMAccount.  The payload built from get_initial_data (or
\* the literal of deploy.py) never carries a nonce.  An error answer has no
\* "result" member, so resp["result"] raises KeyError.
QueryAccount ==
    /\ pc = "account"
    /\ IF PrepareRaises
       THEN PrepareFails
       ELSE IF Traced /\ ~QueriesAccount(prepare_payload(Targeted(Passed)))
       THEN /\ Goto(NextStage("account"))
            /\ InExecute
            /\ UNCHANGED <<calls, rpcErr, trail, txs, pool, resp, waitRet, notMined>>
            /\ PreparesOnly
       ELSE /\ calls' = Bump("account")
            /\ \E answer \in Answers :
                 /\ rpcErr' = IF answer = "error" THEN "query.EVMAccount" ELSE rpcErr
                 /\ IF HasError(answer)
                    THEN Raise(Error("KeyError", "result", "", None))
                    ELSE Goto(NextStage("account"))
            /\ trail' = Append(trail, "nonce")
            /\ InExecute
            /\ UNCHANGED <<txs, pool, resp, waitRet, notMined>>
            /\ Prepares

\* create_raw_tx: tx.CreateRawSend
CreateRawTx ==
    /\ pc = "create"
    /\ calls' = Bump("create")
    /\ \E answer \in Answers :
         /\ rpcErr' = IF answer = "error" THEN "tx.CreateRawSend" ELSE rpcErr
         /\ IF RawTxRejected(answer)
            THEN Raise(Error(ApiErrorKind,
                             IF prog = "oneswap" THEN "Failed to create raw tx"
                             ELSE "Failed to broadcast tx",
                             "invalid payload", None))
            ELSE Goto(NextStage("create"))
    /\ trail' = Append(trail, "tx.CreateRawSend")
    /\ InExecute
    /\ UNCHANGED <<txs, pool, resp, waitRet, notMined>>
    /\ SendsPayload("tx.CreateRawSend")

\* broadcast_tx: sign the raw bytes locally, then broadcast.TxSync.  The node
\* either takes the transaction (it is pending from then on) or answers with
\* an error; deploy.py reads resp['result'] without looking at the error.
BroadcastTx ==
    /\ pc = "broadcast"
    /\ calls' = Bump("broadcast")
    /\ \E answer \in Answers :
         /\ rpcErr' = IF answer = "error" THEN "broadcast.TxSync" ELSE rpcErr
         /\ IF HasError(answer)
            THEN /\ Raise(IF prog = "oneswap"
                          THEN Error("ProtocolAPIError", "Failed to broadcast tx",
                                     "tx rejected", None)
                          ELSE Error("KeyError", "result", "", None))
                 /\ UNCHANGED txs
            ELSE /\ Len(txs) < MaxTx
                 /\ txs' = Append(txs, [ctor |-> (op = "smart_deploy"), name |-> key,
                                        arg |-> value, status |-> "pending",
                                        live |-> FALSE, run |-> run,
                                        polled |-> FALSE])
                 /\ txHash' = Len(txs) + 1
                 /\ repeat_count' = DEFAULT_REPEAT_COUNT
                 /\ pc' = NextStage("broadcast")
                 /\ UNCHANGED <<outcome, ret, err, phase, state, file, fileStatus,
                                first>>
    /\ trail' = trail \o <<"sign", "broadcast.TxSync">>
    /\ InExecute
    /\ UNCHANGED <<pool, resp, waitRet, notMined>>
    /\ Sends("broadcast.TxSync", get_signed_params(RawTx, DEPLOYER_PK))

\* the polling stage is entered once, however many requests it takes
Polled(t) == IF t # <<>> /\ t[Len(t)] = "query.Tx" THEN t ELSE Append(t, "query.Tx")

\* wait_for_tx, one turn of the loop whose answer carries an error: sleep,
\* count down, and raise once the count is used up.
PollNotMined ==
    /\ pc = "poll"
    /\ LoopGuard(repeat_count)
    /\ txs[txHash].status = "pending"
    /\ calls' = Bump("tx")
    /\ notMined' = notMined + 1
    /\ IF LoopGuard(repeat_count - 1)
       THEN /\ repeat_count' = repeat_count - 1
            /\ UNCHANGED <<pc, outcome, ret, err, txHash, phase, state, file,
                           fileStatus, first>>
       ELSE Raise(Error(WaitErrorKind, "Failed to broadcast tx ({tx_hash})",
                        "tx not found", None))
    /\ UNCHANGED rpcErr
    /\ trail' = Polled(trail)
    /\ InExecute
    /\ UNCHANGED <<txs, pool, resp, waitRet>>
    /\ SendsTx

\* ------------------------------------------- the package's operations
\* the operations of UniswapManager that the commands of oneswap.py call
AddOps == {"add_liquidity_OLT", "add_liquidity"}
SimulatedOps == {"remove_liquidity_OLT", "remove_liquidity",
                 "swap_tokens_for_exact_OLT", "swap_exact_OLT_for_tokens",
                 "swap_tokens_for_exact_tokens", "swap_exact_tokens_for_tokens"}
QueryOps == {"get_token_name", "get_reserves"}
PkgOps == AddOps \cup SimulatedOps \cup QueryOps \cup {"erc20_approve"}
\* the quotes: one call_method on the router each
QuoteOps == {"quote", "get_amounts_out", "get_amounts_in", "get_pool_fee_rate"}
QuotedFn(o) ==
    CASE o = "quote" -> "quote"
      [] o = "get_amounts_out" -> "getAmountsOut"
      [] o = "get_amounts_in" -> "getAmountsIn"
      [] OTHER -> "getPoolFeeRate"

\* the contract function an operation executes ("" when it only queries)
ExecutedFn(o) ==
    CASE o = "erc20_approve" -> "approve"
      [] o = "add_liquidity_OLT" -> "addLiquidityETH"
      [] o = "add_liquidity" -> "addLiquidity"
      [] o = "remove_liquidity_OLT" -> "removeLiquidityETH"
      [] o = "remove_liquidity" -> "removeLiquidity"
      [] o = "swap_tokens_for_exact_OLT" -> "swapTokensForExactETH"
      [] o = "swap_exact_OLT_for_tokens" -> "swapExactETHForTokens"
      [] o = "swap_tokens_for_exact_tokens" -> "swapTokensForExactTokens"
      [] o = "swap_exact_tokens_for_tokens" -> "swapExactTokensForTokens"
      [] OTHER -> ""

\* the first contract function an operation queries with call_method
FirstQuery(o) ==
    CASE o \in {"erc20_approve", "get_token_name"} -> "symbol"
      [] o \in AddOps \cup {"get_reserves"} -> "getPair"
      [] o \in QuoteOps -> QuotedFn(o)
      [] OTHER -> ExecutedFn(o)

\* _get_state: the names an operation looks up before its first request
Looked(o) ==
    CASE o \in {"erc20_approve", "get_token_name"} -> {}
      [] o = "get_reserves" -> {"UniswapV2Factory"}
      [] o \in {"add_liquidity_OLT", "remove_liquidity_OLT"} ->
             {"UniswapV2Factory", "UniswapV2Router", "WOLT"}
      [] o \in {"add_liquidity", "remove_liquidity"} ->
             {"UniswapV2Factory", "UniswapV2Router"}
      [] OTHER -> {"UniswapV2Router"}

\* sl.get: the names an operation looks up in the swap list
ListLooked(o) ==
    IF o \in {"swap_tokens_for_exact_OLT", "swap_exact_OLT_for_tokens"}
    THEN {"WOLT"}
    ELSE {}

\* self._state[abi_name] and self._data[name] raise KeyError for a name the
\* mapping lacks
FoundAny(names, mapping) == TRUE
Found(names, mapping) == names \subseteq DOMAIN mapping

\* the assertion on the status execute_method returned
AssertMsg(o) ==
    CASE o = "erc20_approve" -> "{name} not approved."
      [] o \in {"add_liquidity_OLT", "add_liquidity", "remove_liquidity_OLT",
                "remove_liquidity"} -> "Liquidity pair failed"
      [] OTHER -> "Swap failed"

\* after execute_method in the package: "assert done", then the re-read of
\* the reserves (add liquidity) or the end of the operation
Confirmed(done) ==
    IF ~Truthy(done)
    THEN Raise(Error("AssertionError", AssertMsg(op), "", None))
    ELSE IF op \in AddOps
    THEN /\ pc' = "call_nonce"
         /\ phase' = 2
         /\ repeat_count' = 0
         /\ UNCHANGED <<outcome, ret, err, txHash, state, file, fileStatus, first>>
    ELSE /\ Return(None)
         /\ UNCHANGED <<state, file, fileStatus, first>>

\* wait_for_tx, the turn whose answer carries a result, with everything the
\* caller does before it next waits for the network.
PollMined ==
    /\ pc = "poll"
    /\ LoopGuard(repeat_count)
    /\ txs[txHash].status # "pending"
    /\ \E shape \in (IF txs[txHash].status = "ok" THEN OkShapes ELSE FailedShapes) :
         LET r == TxResult(shape, txHash, txs[txHash].ctor)
             events == parse_events(r.events)
             done == ExecuteValue(events)
         IN /\ calls' = Bump("tx")
            /\ resp' = r
            /\ IF CodeFailed(r.code)
               THEN /\ waitRet' = NotReturned
                    /\ Raise(Error(WaitErrorKind, "Failed to execute tx ({tx_hash})",
                                   r.log, None))
               ELSE IF HasTxError(events)
               THEN /\ waitRet' = NotReturned
                    /\ Raise(Error(WaitErrorKind, "Failed to execute vm ({tx_hash})",
                                   "", events["tx.error"]))
               ELSE /\ waitRet' = Returned(events)
                    /\ IF done = None
                       THEN Raise(Error("KeyError", "tx.status", "", None))
                       ELSE IF op = "smart_deploy"
                       THEN /\ Persist(key, Record(done, txHash))
                            /\ Return(done)
                            /\ RecordFirst(key, done)
                       ELSE IF op \in PkgOps \cup {"swap"}
                       THEN Confirmed(done)
                       ELSE IF op = "execute_smart_contract"
                       THEN /\ Return(done)
                            /\ UNCHANGED <<state, file, fileStatus, first>>
                       ELSE IF op = "check_is_approved_or_approve"
                       THEN IF done # Bool(TRUE)
                            THEN Raise(Error("AssertionError", "WOLT not approved",
                                             "", None))
                            ELSE /\ Return(None)
                                 /\ UNCHANGED <<state, file, fileStatus, first>>
                       ELSE IF done # Bool(TRUE)
                       THEN Raise(Error("AssertionError", "Liquidity pair failed",
                                        "", None))
                       ELSE /\ Persist(PairKey,
                                       Record(IF PairKey \in DOMAIN state
                                              THEN state[PairKey].address ELSE None,
                                              txHash))
                            /\ pc' = "gp_account"
                            /\ phase' = 2
                            /\ repeat_count' = 0
                            /\ UNCHANGED <<outcome, ret, err, txHash, first>>
            /\ query' = IF /\ op \in AddOps
                           /\ ~CodeFailed(r.code)
                           /\ ~HasTxError(events)
                           /\ Truthy(done)
                        THEN "getPair" ELSE query
            /\ txs' = [txs EXCEPT ![txHash].polled =
                           ~CodeFailed(r.code) /\ ~HasTxError(events)]
    /\ UNCHANGED rpcErr
    /\ trail' = Polled(trail)
    /\ InOp
    /\ UNCHANGED <<pair, before, after>>
    /\ UNCHANGED <<pool, notMined>>
    /\ SendsTx

\* the router's entry points that add liquidity
AddLiquidityFns == {"addLiquidityETH", "addLiquidity"}

\* The chain mines a pending transaction: it takes effect or it fails.  A
\* successful add-liquidity call creates the pair and fills its reserves, or
\* changes nothing (amounts the router takes as zero); a successful approve
\* sets the allowance.
Mine(h) ==
    /\ txs[h].status = "pending"
    /\ \E s \in {"ok", "failed"} :
         /\ txs' = [txs EXCEPT ![h].status = s, ![h].live = (pc # "off")]
         /\ pool' \in (IF s = "ok" /\ txs[h].name \in AddLiquidityFns
                       THEN {"funded", pool} ELSE {pool})
         /\ allowance' = IF s = "ok" /\ txs[h].name = "approve"
                         THEN txs[h].arg ELSE allowance
    /\ UNCHANGED <<prog, run, pc, op, key, phase, outcome, state, file, fileStatus,
                   txHash, repeat_count, calls, resp, waitRet, ret, err, notMined,
                   rpcErr, first, prior, trail, query, force, value, pair, before,
                   after, sidevars,
                   wirevars>>

\* ------------------------------- deploy.py: add_default_liquidity_with_eth
\* reserves of the pair as getReserves reports them
Reserves ==
    CASE pool = "funded" -> <<5, 7>>
      [] pool = "lopsided" -> <<5, 0>>
      [] OTHER -> <<0, 0>>

\* main() reaches add_default_liquidity_with_eth with the addresses its
\* smart_deploy calls returned; the operation opens with get_reserves.
AddDefaultLiquidity ==
    /\ pc = "idle"
    /\ prog = "deploy"
    /\ Names \subseteq DOMAIN state
    /\ Begin("add_default_liquidity_with_eth", "addLiquidityETH", None)
    /\ Running("gp_account", 1)

\* call_method of deploy.py: get_evm_account before every query.EVMCall
CallAccount ==
    /\ pc \in {"gp_account", "gr_account", "al_account"}
    /\ IF PrepareRaises
       THEN PrepareFails
       ELSE /\ calls' = Bump("account")
            /\ \E answer \in Answers :
                 /\ rpcErr' = IF answer = "error" THEN "query.EVMAccount" ELSE rpcErr
                 /\ IF HasError(answer)
                    THEN Raise(Error("KeyError", "result", "", None))
                    ELSE Goto(CASE pc = "gp_account" -> "gp_call"
                                [] pc = "gr_account" -> "gr_call"
                                [] OTHER -> "al_call")
            /\ UNCHANGED <<trail, query, pair, before, after>>
            /\ InOp
            /\ UNCHANGED <<txs, pool, resp, waitRet, notMined>>
            /\ Prepares

CallError ==
    Error("ValueError", "Failed to call smart contract method", "call rejected", None)

\* get_reserves, the getPair query: no pair gives [0, 0]; otherwise the pair's
\* address is written into the pair record, the record's tx_hash kept.
GetPair ==
    /\ pc = "gp_call"
    /\ calls' = Bump("evmcall")
    /\ \E answer \in Answers :
         /\ rpcErr' = IF answer = "error" THEN "query.EVMCall" ELSE rpcErr
         /\ IF HasError(answer)
            THEN /\ Raise(CallError)
                 /\ UNCHANGED <<pair, before, after>>
            ELSE IF pool = "none"
            THEN /\ IF phase = 1
                    THEN Goto("account")
                    ELSE Raise(Error("AssertionError", "reserve0 is zero", "", None))
                 /\ before' = IF phase = 1 THEN <<0, 0>> ELSE before
                 /\ after' = IF phase = 1 THEN after ELSE <<0, 0>>
                 /\ UNCHANGED pair
            ELSE /\ Persist(PairKey,
                            Record(PairAddr,
                                   IF PairKey \in DOMAIN state
                                   THEN state[PairKey].tx_hash ELSE 0))
                 /\ pc' = "gr_account"
                 /\ pair' = PairAddr
                 /\ UNCHANGED <<outcome, ret, err, txHash, repeat_count, phase, first,
                                before, after>>
    /\ UNCHANGED <<trail, query>>
    /\ InOp
    /\ UNCHANGED <<txs, pool, resp, waitRet, notMined>>
    /\ SendsPayload("query.EVMCall")

\* get_reserves, the getReserves query, and what its caller does with it:
\* before the transaction, empty reserves start it and others end the
\* operation; after it, the reserves are asserted to be nonzero.
GetReserves ==
    /\ pc = "gr_call"
    /\ calls' = Bump("evmcall")
    /\ \E answer \in Answers :
         /\ rpcErr' = IF answer = "error" THEN "query.EVMCall" ELSE rpcErr
         /\ IF HasError(answer)
            THEN /\ Raise(CallError)
                 /\ UNCHANGED <<before, after>>
            ELSE IF phase = 1
            THEN /\ IF Reserves[1] = 0 /\ Reserves[2] = 0
                    THEN Goto("account")
                    ELSE /\ Return(None)
                         /\ UNCHANGED <<state, file, fileStatus, first>>
                 /\ before' = Reserves
                 /\ UNCHANGED after
            ELSE /\ IF Reserves[1] = 0
                    THEN Raise(Error("AssertionError", "reserve0 is zero", "", None))
                    ELSE IF Reserves[2] = 0
                    THEN Raise(Error("AssertionError", "reserve1 is zero", "", None))
                    ELSE /\ Return(None)
                         /\ UNCHANGED <<state, file, fileStatus, first>>
                 /\ after' = Reserves
                 /\ UNCHANGED before
    /\ UNCHANGED <<trail, query, pair>>
    /\ InOp
    /\ UNCHANGED <<txs, pool, resp, waitRet, notMined>>
    /\ SendsPayload("query.EVMCall")

\* ------------------------------- deploy.py: check_is_approved_or_approve
\* main() approves the router for a token once the contracts are deployed;
\* the operation opens with the allowance query.
CheckIsApprovedOrApprove ==
    /\ pc = "idle"
    /\ prog = "deploy"
    /\ Names \subseteq DOMAIN state
    /\ BeginWith("check_is_approved_or_approve", "approve", None, FALSE,
                 MAX_UINT_VALUE)
    /\ query' = "allowance"
    /\ Running("al_account", 0)

\* check_is_approved_or_approve, the allowance query: "if not allowance"
\* executes approve with uint_max_value, anything else ends the operation.
GetAllowance ==
    /\ pc = "al_call"
    /\ calls' = Bump("evmcall")
    /\ \E answer \in Answers :
         /\ rpcErr' = IF answer = "error" THEN "query.EVMCall" ELSE rpcErr
         /\ IF HasError(answer)
            THEN /\ Raise(CallError)
                 /\ UNCHANGED before
            ELSE /\ IF allowance = 0
                    THEN Goto("account")
                    ELSE /\ Return(None)
                         /\ UNCHANGED <<state, file, fileStatus, first>>
                 /\ before' = <<allowance>>
    /\ UNCHANGED <<trail, query, pair, after>>
    /\ InOp
    /\ UNCHANGED <<txs, pool, resp, waitRet, notMined>>
    /\ SendsPayload("query.EVMCall")

\* --------------------------------------- the package: queries and decisions

\* a python int and a python list of ints, as values
Num(n) == [t |-> "int", s |-> <<n>>, b |-> FALSE]
List(seq) == [t |-> "list", s |-> seq, b |-> FALSE]

\* address texts as character codes: '0x' and forty hex digits
Zeros(n) == [i \in 1..n |-> 48]
ZeroAddress == <<48, 120>> \o Zeros(40)
\* the pair contract: 0x00...0070
PairAddress == <<48, 120>> \o Zeros(38) \o <<55, 48>>

\* remove_0x
remove_0x(address) ==
    IF Len(address) >= 2 /\ address[1] = 48 /\ address[2] = 120
    THEN SubSeq(address, 3, Len(address))
    ELSE address

\* get_pair: "if pair_address == '0' * 40: return"
IsZeroAddressNever(pair_address) == FALSE
IsZeroAddress(pair_address) == pair_address = Zeros(40)
get_pair(pair_address) ==
    IF IsZeroAddress(pair_address) THEN None ELSE Str(pair_address)

\* erc20_approve: "if allowance != value"
NeedsApproveWhenZero(a, v) == a = 0
NeedsApprove(a, v) == a # v

\* add_liquidity, add_liquidity_OLT:
\* "if force or reserves[0] == 0 and reserves[1] == 0"
ExecutesOnAnyZero(f, reserves) == f \/ reserves[1] = 0 \/ reserves[2] = 0
Executes(f, reserves) == f \/ (reserves[1] = 0 /\ reserves[2] = 0)

\* the asserts on the reserves re-read after the transaction
ReservesOkFirstOnly(reserves) == reserves[1] # 0
ReservesOk(reserves) == reserves[1] # 0 /\ reserves[2] # 0

\* call_method: "if resp.get('error')"
CallRejectedNever(answer) == FALSE
CallRejected(answer) == HasError(answer)

\* query.EVMCall answers: a result, an error, or a result with empty data
EvmAnswers == Answers \cup {"empty"}

\* the decoded output of query.EVMCall for the function queried, as
\* parse_call_response returns it
CallOutput(fn) ==
    CASE fn = "symbol" -> Str(<<68, 65, 73>>)
      [] fn = "allowance" -> Num(allowance)
      [] fn = "getPair" -> Str(IF pool = "none" THEN ZeroAddress ELSE PairAddress)
      [] fn = "getReserves" -> List(Reserves \o <<9>>)
      [] fn = "decimals" -> Num(18)
      [] fn = "getPoolFeeRate" -> List(<<997, 3>>)
      [] fn = "getAmountsOut" -> List(<<AmountArg, amount>>)
      [] OTHER -> List(<<1, 1>>)

\* sys.exit(1) of _get_state
SysExit ==
    /\ Ends("exited", None, NoError)
    /\ pc' = "off"
    /\ state' = EmptyDict
    /\ UNCHANGED <<file, fileStatus, first>>

\* An operation of the package begins: its look-ups in the state, then its
\* first call_method.
Operation(o, f, v) ==
    /\ pc = "idle"
    /\ prog = "oneswap"
    /\ BeginWith(o, ExecutedFn(o), None, f, v)
    /\ query' = FirstQuery(o)
    /\ IF Found(ListLooked(o), sl) /\ Found(Looked(o), state)
       THEN Running("call_nonce", IF o \in AddOps THEN 1 ELSE 0)
       ELSE SysExit

\* call_method goes on to another query, to execute_method, or the operation
\* returns or fails an assertion
Again(fn) == Goto("call_nonce") /\ query' = fn
Execute == Goto("account") /\ UNCHANGED query
Done(r) == Return(r) /\ UNCHANGED <<state, file, fileStatus, first, query>>
Fail(msg) == Raise(Error("AssertionError", msg, "", None)) /\ UNCHANGED query

\* what the caller of get_reserves does with the reserves
GotReserves(reserves) ==
    IF op = "get_reserves"
    THEN Done(List(reserves)) /\ UNCHANGED <<before, after>>
    ELSE IF op = "swap"
    THEN /\ before' = reserves
         /\ UNCHANGED after
         /\ IF reserves[1] = 0 \/ reserves[2] = 0
            THEN Done(None)
            ELSE Again("getAmountsOut")
    ELSE IF phase = 1
    THEN /\ before' = reserves
         /\ UNCHANGED after
         /\ IF Executes(force, reserves)
            THEN IF op = "add_liquidity" THEN Again("addLiquidity") ELSE Execute
            ELSE Done(None)
    ELSE /\ after' = reserves
         /\ UNCHANGED before
         /\ IF ReservesOk(reserves) THEN Done(None)
            ELSE IF reserves[1] = 0 THEN Fail("reserve0 is zero")
            ELSE Fail("reserve1 is zero")

\* get_pool_fee_rate: 1 - info[0] / 10 ** info[1], as numerator and
\* denominator
PoolFeeRate(info) == List(<<10 ^ info[2] - info[1], 10 ^ info[2]>>)

\* what follows a call_method that returned
AfterCall(output) ==
    CASE query = "symbol" ->
           /\ IF op = "get_token_name" THEN Done(output) ELSE Again("allowance")
           /\ UNCHANGED <<pair, before, after>>
      [] query = "allowance" ->
           /\ IF NeedsApprove(output.s[1], value) THEN Execute ELSE Done(None)
           /\ before' = output.s
           /\ UNCHANGED <<pair, after>>
      [] query = "getPair" ->
           LET pair_address == remove_0x(output.s)
           IN /\ pair' = Str(pair_address)
              /\ IF Truthy(get_pair(pair_address))
                 THEN Again("getReserves") /\ UNCHANGED <<before, after>>
                 ELSE GotReserves(<<0, 0>>)
      [] query = "getReserves" ->
           /\ UNCHANGED pair
           /\ GotReserves(<<output.s[1], output.s[2]>>)
      [] query = "getPoolFeeRate" ->
           /\ IF op = "swap"
              THEN Again("getPair")
              ELSE Done(PoolFeeRate(output.s))
           /\ UNCHANGED <<pair, before, after>>
      [] query = "getAmountsOut" ->
           /\ IF op = "swap"
              THEN Goto("quoted") /\ UNCHANGED query
              ELSE Done(output)
           /\ UNCHANGED <<pair, before, after>>
      [] query \in {"quote", "getAmountsIn"} ->
           /\ Done(output)
           /\ UNCHANGED <<pair, before, after>>
      [] OTHER ->
           /\ Execute
           /\ UNCHANGED <<pair, before, after>>

\* call_method: the request that follows get_nonce
CallStageCreates == "create"
CallStage == "call_evm"

\* Client.call_method: get_nonce
CallNonce ==
    /\ pc = "call_nonce"
    /\ calls' = Bump("account")
    /\ \E answer \in Answers :
         /\ rpcErr' = IF answer = "error" THEN "query.EVMAccount" ELSE rpcErr
         /\ IF HasError(answer)
            THEN Raise(Error("KeyError", "result", "", None))
            ELSE Goto(CallStage)
    /\ UNCHANGED <<trail, query, pair, before, after>>
    /\ InOp
    /\ UNCHANGED <<txs, pool, resp, waitRet, notMined>>
    /\ Prepares

\* Client.call_method: query.EVMCall and what the operation does with the
\* decoded output
CallEvm ==
    /\ pc = "call_evm"
    /\ calls' = Bump("evmcall")
    /\ \E answer \in EvmAnswers :
         /\ rpcErr' = IF answer = "error" THEN "query.EVMCall" ELSE rpcErr
         /\ IF CallRejected(answer)
            THEN /\ Raise(Error("ProtocolAPIError",
                                "Failed to call smart contract method",
                                "call rejected", None))
                 /\ UNCHANGED <<query, pair, before, after>>
            ELSE IF answer = "empty"
            THEN /\ Fail("Call returned empty data")
                 /\ UNCHANGED <<pair, before, after>>
            ELSE AfterCall(CallOutput(query))
    /\ UNCHANGED trail
    /\ InOp
    /\ UNCHANGED <<txs, pool, resp, waitRet, notMined>>
    /\ SendsPayload("query.EVMCall")

\* ------------------------------------------------- oneswap.py: swap
\* swap --name0 OLT --name1 DAI --direction IN --amount v: the command opens
\* with asyncio.gather(get_token_name(token1), get_token_decimals(token1))
Swap(v) ==
    /\ pc = "idle"
    /\ prog = "oneswap"
    /\ BeginWith("swap", "swapExactETHForTokens", None, FALSE, v)
    /\ query' = ""
    /\ Running("gather", 0)

\* the contract function each coroutine of the gather queries
TaskFn(t) == IF t = 1 THEN "symbol" ELSE "decimals"
TaskParams(t) ==
    prepare_payload([get_initial_data EXCEPT !.to = "0lt{contract_address}",
                                             !.data = TaskFn(t)])

\* _rpc_call: "self.id += 1", then the payload with "id": self.id
NextId(n) == n + 1

\* what the gather leaves alone
InGather ==
    UNCHANGED <<prog, run, op, key, prior, force, value, allowance, sidevars,
                trail, pair, before, after, txs, pool, resp, waitRet, notMined,
                call_data, params, initial_data>>

\* gather: both coroutines run up to their first await, the get_nonce
\* request of call_method, one after the other
Gather ==
    /\ pc = "gather"
    /\ tasks = <<>>
    /\ tasks' = <<"nonce", "nonce">>
    /\ calls' = [calls EXCEPT !["account"] = @ + 2]
    /\ LET first_id == NextId(id)
           second_id == NextId(first_id)
       IN /\ id' = second_id
          /\ wire' = wire \o
               <<[method |-> "query.EVMAccount", id |-> first_id,
                  params |-> [address |-> TaskParams(1).from, blockTag |-> "latest"]],
                 [method |-> "query.EVMAccount", id |-> second_id,
                  params |-> [address |-> TaskParams(2).from, blockTag |-> "latest"]]>>
    /\ UNCHANGED <<pc, outcome, ret, err, phase, txHash, repeat_count, state, file,
                   fileStatus, first, rpcErr, query>>
    /\ InGather

\* the answer to the get_nonce of coroutine t arrives, whichever comes
\* first: the coroutine goes on to its query.EVMCall
TaskNonce(t) ==
    /\ pc = "gather"
    /\ t \in DOMAIN tasks
    /\ tasks[t] = "nonce"
    /\ \E answer \in Answers :
         /\ rpcErr' = IF answer = "error" THEN "query.EVMAccount" ELSE rpcErr
         /\ IF HasError(answer)
            THEN /\ Raise(Error("KeyError", "result", "", None))
                 /\ UNCHANGED <<tasks, wire, id, calls>>
            ELSE /\ tasks' = [tasks EXCEPT ![t] = "call"]
                 /\ calls' = Bump("evmcall")
                 /\ id' = NextId(id)
                 /\ wire' = Append(wire, [method |-> "query.EVMCall",
                                          id |-> NextId(id),
                                          params |-> Nonced(TaskParams(t))])
                 /\ UNCHANGED <<pc, outcome, ret, err, phase, txHash, repeat_count,
                                state, file, fileStatus, first>>
    /\ UNCHANGED query
    /\ InGather

\* the answer to the query of coroutine t arrives; when both coroutines
\* are done the gather returns and the command goes on to get_pool_fee_rate
TaskCall(t) ==
    /\ pc = "gather"
    /\ t \in DOMAIN tasks
    /\ tasks[t] = "call"
    /\ \E answer \in EvmAnswers :
         /\ rpcErr' = IF answer = "error" THEN "query.EVMCall" ELSE rpcErr
         /\ IF CallRejected(answer)
            THEN /\ Raise(Error("ProtocolAPIError",
                                "Failed to call smart contract method",
                                "call rejected", None))
                 /\ UNCHANGED <<tasks, query>>
            ELSE IF answer = "empty"
            THEN /\ Fail("Call returned empty data")
                 /\ UNCHANGED tasks
            ELSE /\ tasks' = [tasks EXCEPT ![t] = "done"]
                 /\ IF \A u \in DOMAIN tasks \ {t} : tasks[u] = "done"
                    THEN Again("getPoolFeeRate")
                    ELSE /\ UNCHANGED <<pc, outcome, ret, err, phase, txHash,
                                        repeat_count, state, file, fileStatus,
                                        first, query>>
    /\ UNCHANGED <<wire, id, calls>>
    /\ InGather

\* "if not amount_out_min"
IsZeroAmountNever(digits) == FALSE
IsZeroAmount(digits) == digits = <<0>>

\* swap, direction IN, once get_amounts_out has answered: the minimum
\* received is calculated; a zero minimum ends the command, otherwise the
\* user confirms or aborts, and swap_exact_OLT_for_tokens begins with the
\* simulation of the swap
SwapDecide ==
    /\ pc = "quoted"
    /\ LET amount_out_min == calculate_min_slippage_amount(amount, slippage[1])
       IN /\ slippaged' = [slippaged EXCEPT !.min =
                 <<amount_out_min, calculate_min_slippage_amount(amount, slippage[2])>>]
          /\ IF IsZeroAmount(amount_out_min)
             THEN Done(None)
             ELSE \E confirm \in BOOLEAN :
                    IF confirm THEN Again("swapExactETHForTokens") ELSE Done(None)
    /\ UNCHANGED <<prog, run, op, key, prior, force, value, allowance, amount,
                   slippage, tokens, sorted, procs, cmdvars, trail, pair, before,
                   after, txs, pool, resp, waitRet, notMined, calls, rpcErr,
                   wirevars>>

\* ------------------------------------------------------- specification
Next ==
    \/ Start
    \/ Exit
    \/ Crash
    \/ \E name \in Names : SmartDeploy(name)
    \/ QueryAccount
    \/ CreateRawTx
    \/ BroadcastTx
    \/ PollNotMined
    \/ PollMined
    \/ \E h \in DOMAIN txs : Mine(h)
    \/ AddDefaultLiquidity
    \/ CallAccount
    \/ GetPair
    \/ GetReserves
    \/ CheckIsApprovedOrApprove
    \/ GetAllowance

Spec == Init /\ [][Next]_vars

\* A state file that cannot be parsed: what is left of the records of an
\* earlier deployment (a file cut short), or no file at all.
StaleRecords == [n \in Names |-> Record(Str(<<66>>), 9)]

InitBroken ==
    /\ prog \in Programs
    /\ run = 0
    /\ pc = "off"
    /\ op = "none"
    /\ key = ""
    /\ phase = 0
    /\ outcome = "none"
    /\ state = EmptyDict
    /\ \/ fileStatus = "missing" /\ file = EmptyDict
       \/ fileStatus = "broken" /\ file = StaleRecords
    /\ txs = <<>>
    /\ pool = "none"
    /\ txHash = 0
    /\ repeat_count = 0
    /\ calls = ZeroCalls
    /\ resp = NoResult
    /\ waitRet = NotReturned
    /\ ret = None
    /\ err = NoError
    /\ notMined = 0
    /\ rpcErr = ""
    /\ first = [n \in Names |-> None]
    /\ prior = None
    /\ trail = <<>>
    /\ query = ""
    /\ force = FALSE
    /\ value = 0
    /\ allowance = 0
    /\ pair = None
    /\ before = <<>>
    /\ after = <<>>
    /\ amount = <<>>
    /\ slippage = <<0, 0>>
    /\ slippaged = NotCalculated
    /\ SideIdle
    /\ WireIdle

SpecBroken == InitBroken /\ [][Next]_vars

\* The operations of a deployed exchange: one process with the contracts of
\* an earlier deployment in its state file (or none), a pair that may or may
\* not exist yet, and some allowance already granted.
DeployedNames == Names \cup {"UniswapV2Factory", "UniswapV2Router"}
Deployment == [n \in DeployedNames |-> Record(Str(<<65>>), 1)]

InitOps ==
    /\ prog \in Programs
    /\ run = 1
    /\ pc = "idle"
    /\ op = "none"
    /\ key = ""
    /\ phase = 0
    /\ outcome = "none"
    /\ \/ state = Deployment /\ file = Deployment /\ fileStatus = "ok"
       \/ state = EmptyDict /\ file = EmptyDict /\ fileStatus = "missing"
    /\ txs = <<>>
    /\ pool \in {"none", "empty", "lopsided", "funded"}
    /\ allowance \in {0, 5, MAX_UINT_VALUE}
    /\ txHash = 0
    /\ repeat_count = 0
    /\ calls = ZeroCalls
    /\ resp = NoResult
    /\ waitRet = NotReturned
    /\ ret = None
    /\ err = NoError
    /\ notMined = 0
    /\ rpcErr = ""
    /\ first = [n \in Names |-> None]
    /\ prior = None
    /\ trail = <<>>
    /\ query = ""
    /\ force = FALSE
    /\ value = 0
    /\ pair = None
    /\ before = <<>>
    /\ after = <<>>
    /\ amount = <<>>
    /\ slippage = <<0, 0>>
    /\ slippaged = NotCalculated
    /\ SideIdle
    /\ WireIdle

NextOps ==
    \/ \E o \in QueryOps \cup SimulatedOps : Operation(o, FALSE, 0)
    \/ \E v \in {5, MAX_UINT_VALUE} : Operation("erc20_approve", FALSE, v)
    \/ \E o \in AddOps, f \in BOOLEAN : Operation(o, f, 0)
    \/ AddDefaultLiquidity
    \/ CallNonce
    \/ CallEvm
    \/ CallAccount
    \/ GetPair
    \/ GetReserves
    \/ CheckIsApprovedOrApprove
    \/ GetAllowance
    \/ QueryAccount
    \/ CreateRawTx
    \/ (Len(txs) < MaxOpsTx /\ BroadcastTx)
    \/ PollNotMined
    \/ PollMined
    \/ \E h \in DOMAIN txs : Mine(h)

SpecOps == InitOps /\ [][NextOps]_vars

\* One operation of the package on a state file and a swap list that may
\* lack any of the names: the operations of a deployed exchange, the quotes
\* and smart_deploy.
Restricted(mapping, names) == [n \in DOMAIN mapping \cap names |-> mapping[n]]

InitLookup ==
    /\ prog = "oneswap"
    /\ run = 1
    /\ pc = "idle"
    /\ op = "none"
    /\ key = ""
    /\ phase = 0
    /\ outcome = "none"
    /\ \E names \in SUBSET DeployedNames :
         /\ state = Restricted(Deployment, names)
         /\ file = Restricted(Deployment, names)
         /\ fileStatus = IF names = {} THEN "missing" ELSE "ok"
    /\ txs = <<>>
    /\ pool = "funded"
    /\ allowance = 0
    /\ txHash = 0
    /\ repeat_count = 0
    /\ calls = ZeroCalls
    /\ resp = NoResult
    /\ waitRet = NotReturned
    /\ ret = None
    /\ err = NoError
    /\ notMined = 0
    /\ rpcErr = ""
    /\ first = [n \in Names |-> None]
    /\ prior = None
    /\ trail = <<>>
    /\ query = ""
    /\ force = FALSE
    /\ value = 0
    /\ pair = None
    /\ before = <<>>
    /\ after = <<>>
    /\ amount = <<>>
    /\ slippage = <<0, 0>>
    /\ slippaged = NotCalculated
    /\ tokens = <<>>
    /\ sorted = None
    /\ procs = <<>>
    /\ \E names \in SUBSET Names : sl = Restricted(SwapListed, names)
    /\ supply = 0
    /\ balance = 0
    /\ step = 0
    /\ args = None
    /\ paths = <<>>
    /\ wire = Untraced
    /\ id = 0
    /\ call_data = None
    /\ params = None
    /\ tasks = <<>>
    /\ initial_data = None

NextLookup ==
    \/ (op = "none" /\ \E o \in PkgOps \cup QuoteOps : Operation(o, TRUE, 5))
    \/ (op = "none" /\ \E name \in Names : SmartDeploy(name))
    \/ CallNonce
    \/ CallEvm
    \/ QueryAccount
    \/ CreateRawTx
    \/ (Len(txs) < MaxOpsTx /\ BroadcastTx)
    \/ PollNotMined
    \/ PollMined
    \/ \E h \in DOMAIN txs : Mine(h)

SpecLookup == InitLookup /\ [][NextLookup]_vars

\* ------------------------------------------ oneswap.py: the swap paths
\* The swap command for every choice of its options, call by call: what it
\* takes from the swap list, which operation it calls and the router path of
\* each call.
\* everything but the position and result of a command and its own variables
offcommand == <<prog, run, key, phase, state, file, fileStatus, txs, pool,
                txHash, repeat_count, calls, resp, waitRet, notMined, rpcErr,
                first, prior, trail, query, force, value, allowance, pair,
                before, after, slipvars, tokens, sorted, procs, wirevars>>

\* Web3.toChecksumAddress: ValueError for a text that is not hex; for a hex
\* text the address in its one checksum spelling, whatever the case it came in
IsHexText(address) ==
    \A i \in 1..Len(address) :
        address[i] \in (48..57) \cup (65..70) \cup (97..102)
prepare_address(address) ==
    [i \in 1..Len(address) |->
        IF address[i] \in 97..102 THEN address[i] - 32 ELSE address[i]]

PathNames == {"OLT"} \cup Names
Directions == {"", "IN", "OUT"}
PathTexts == {<<65, 48>>, <<97, 48>>, <<66, 57>>}
Options == [name0 : PathNames, name1 : PathNames, direction : Directions]

InitPath ==
    /\ prog = "oneswap"
    /\ run = 1
    /\ pc = "idle"
    /\ op = "none"
    /\ key = ""
    /\ phase = 0
    /\ outcome = "none"
    /\ state = Deployment
    /\ file = Deployment
    /\ fileStatus = "ok"
    /\ txs = <<>>
    /\ pool = "funded"
    /\ allowance = 0
    /\ txHash = 0
    /\ repeat_count = 0
    /\ calls = ZeroCalls
    /\ resp = NoResult
    /\ waitRet = NotReturned
    /\ ret = None
    /\ err = NoError
    /\ notMined = 0
    /\ rpcErr = ""
    /\ first = [n \in Names |-> None]
    /\ prior = None
    /\ trail = <<>>
    /\ query = ""
    /\ force = FALSE
    /\ value = 0
    /\ pair = None
    /\ before = <<>>
    /\ after = <<>>
    /\ amount = <<>>
    /\ slippage = <<0, 0>>
    /\ slippaged = NotCalculated
    /\ tokens = <<>>
    /\ sorted = None
    /\ procs = <<>>
    /\ \E texts \in [Names -> PathTexts] : sl = [n \in Names |-> Str(texts[n])]
    /\ supply = 0
    /\ balance = 0
    /\ step = 0
    /\ \E o \in Options :
         args = [name0 |-> o.name0, name1 |-> o.name1, direction |-> o.direction,
                 receive |-> o.name1, token0 |-> None, token1 |-> None]
    /\ paths = <<>>
    /\ WireIdle

\* the command ends: the process returns to the shell
CommandEnds(out, e) ==
    /\ outcome' = out
    /\ err' = e
    /\ pc' = "off"
    /\ UNCHANGED ret

\* validate_swap_list on both names, "if not direction", then the look-ups
\* of the branch the names select; with name0 OLT, name1 becomes the symbol
\* the token contract answers
SwapResolve ==
    /\ pc = "idle"
    /\ step = 0
    /\ op' = "swap"
    /\ LET wanted == (IF args.name0 = "OLT" \/ args.name1 = "OLT"
                      THEN {"WOLT"} ELSE {})
                         \cup ({args.name0, args.name1} \ {"OLT"})
                         \cup (IF args.name0 = "OLT" THEN {args.name1} ELSE {})
           direction == IF args.direction = "" THEN "IN" ELSE args.direction
       IN IF ~Found(wanted, sl)
          THEN CommandEnds("exited", NoError) /\ UNCHANGED <<args, step>>
          ELSE /\ pc' = "swap"
               /\ outcome' = "running"
               /\ UNCHANGED <<ret, err>>
               /\ step' = 1
               /\ IF args.name0 = "OLT"
                  THEN \E symbol \in {"DAI", "OLT"} :
                         args' = [args EXCEPT !.direction = direction,
                                              !.token0 = sl["WOLT"],
                                              !.token1 = sl[args.name1],
                                              !.name1 = symbol]
                  ELSE IF args.name1 = "OLT"
                  THEN args' = [args EXCEPT !.direction = direction,
                                            !.token1 = sl["WOLT"],
                                            !.token0 = sl[args.name0]]
                  ELSE args' = [args EXCEPT !.direction = direction,
                                            !.token0 = sl[args.name0],
                                            !.token1 = sl[args.name1]]
    /\ UNCHANGED <<sl, supply, balance, paths, offcommand>>

\* get_reserves, then get_amounts_out or get_amounts_in on [token0, token1]
QuotePath(token0, token1) ==
    <<prepare_address(token0.s), prepare_address(token1.s)>>
SwapQuote ==
    /\ pc = "swap"
    /\ step = 1
    /\ \E reserved \in BOOLEAN, enough \in BOOLEAN :
         IF ~reserved
         THEN CommandEnds("returned", NoError) /\ UNCHANGED <<step, paths>>
         ELSE /\ paths' = Append(paths,
                     [kind |-> "quote",
                      fn |-> IF args.direction = "IN" THEN "getAmountsOut"
                                                      ELSE "getAmountsIn",
                      path |-> QuotePath(args.token0, args.token1)])
              /\ IF args.direction = "IN" /\ ~enough
                 THEN CommandEnds("returned", NoError) /\ UNCHANGED step
                 ELSE step' = 2 /\ UNCHANGED <<pc, outcome, ret, err>>
    /\ UNCHANGED <<op, args, sl, supply, balance, offcommand>>

\* "if not auto_confirm and not click.confirm(...)": the dispatch on the
\* names and the direction follows a confirmation
Dispatched ==
    IF args.name0 = "OLT"
    THEN [op |-> "swap_exact_OLT_for_tokens", token0 |-> args.token1, token1 |-> None]
    ELSE IF args.name1 = "OLT"
    THEN [op |-> "swap_tokens_for_exact_OLT", token0 |-> args.token0, token1 |-> None]
    ELSE IF args.direction = "OUT"
    THEN [op |-> "swap_tokens_for_exact_tokens",
          token0 |-> args.token0, token1 |-> args.token1]
    ELSE [op |-> "swap_exact_tokens_for_tokens",
          token0 |-> args.token1, token1 |-> args.token0]
SwapConfirm ==
    /\ pc = "swap"
    /\ step = 2
    /\ \E confirmed \in BOOLEAN :
         IF confirmed
         THEN /\ step' = 3
              /\ op' = Dispatched.op
              /\ UNCHANGED <<pc, outcome, ret, err>>
         ELSE CommandEnds("returned", NoError) /\ UNCHANGED <<step, op>>
    /\ UNCHANGED <<args, paths, sl, supply, balance, offcommand>>

\* the path in the call_method that precedes the transaction
CheckedPathAsGiven(o, token0, token1) ==
    <<prepare_address(token0.s), prepare_address(token1.s)>>
CheckedPath(o, token0, token1) ==
    CASE o = "swap_tokens_for_exact_OLT" ->
             <<prepare_address(token0.s), prepare_address(sl["WOLT"].s)>>
      [] o = "swap_exact_OLT_for_tokens" ->
             <<prepare_address(sl["WOLT"].s), prepare_address(token0.s)>>
      [] o = "swap_tokens_for_exact_tokens" ->
             <<prepare_address(token0.s), prepare_address(token1.s)>>
      [] o = "swap_exact_tokens_for_tokens" ->
             <<prepare_address(token1.s), prepare_address(token0.s)>>
\* the path in execute_method
ExecutedPath(o, token0, token1) ==
    CASE o = "swap_tokens_for_exact_OLT" ->
             <<prepare_address(token0.s), prepare_address(sl["WOLT"].s)>>
      [] o = "swap_exact_OLT_for_tokens" ->
             <<prepare_address(sl["WOLT"].s), prepare_address(token0.s)>>
      [] o = "swap_tokens_for_exact_tokens" ->
             <<prepare_address(token0.s), prepare_address(token1.s)>>
      [] o = "swap_exact_tokens_for_tokens" ->
             <<prepare_address(token1.s), prepare_address(token0.s)>>

\* the operation's call_method: a rejection raises ProtocolAPIError, which the
\* command prints
SwapSimulate ==
    /\ pc = "swap"
    /\ step = 3
    /\ paths' = Append(paths,
           [kind |-> "call_method", fn |-> ExecutedFn(op),
            path |-> CheckedPath(op, Dispatched.token0, Dispatched.token1)])
    /\ \E answer \in {"ok", "rejected"} :
         IF answer = "rejected"
         THEN CommandEnds("returned",
                  Error("ProtocolAPIError", "Failed to call smart contract method",
                        "call rejected", None)) /\ UNCHANGED step
         ELSE step' = 4 /\ UNCHANGED <<pc, outcome, ret, err>>
    /\ UNCHANGED <<op, args, sl, supply, balance, offcommand>>

\* the operation's execute_method and "assert done"
SwapExecute ==
    /\ pc = "swap"
    /\ step = 4
    /\ paths' = Append(paths,
           [kind |-> "execute_method", fn |-> ExecutedFn(op),
            path |-> ExecutedPath(op, Dispatched.token0, Dispatched.token1)])
    /\ step' = 5
    /\ \E done \in BOOLEAN :
         IF done
         THEN CommandEnds("returned", NoError)
         ELSE CommandEnds("raised", Error("AssertionError", "Swap failed", "", None))
    /\ UNCHANGED <<op, args, sl, supply, balance, offcommand>>

NextPath ==
    \/ SwapResolve
    \/ SwapQuote
    \/ SwapConfirm
    \/ SwapSimulate
    \/ SwapExecute

SpecPath == InitPath /\ [][NextPath]_vars

\* ------------------------------------------- the initial DAI supply
\* deploy_and_mint_DAI of the package and mint_initial_dai_supply of
\* deploy.py, call by call, against the total supply the chain keeps for the
\* DAI contract; a process runs one of them and ends, and the next starts.
\* what neither the minting nor test_deploy touches
offpipeline == <<prog, phase, txHash, repeat_count, calls, resp, waitRet,
                 notMined, first, prior, trail, query, force, allowance, pair,
                 before, after, slipvars, tokens, sorted, procs, wirevars, paths>>

\* a + b on digits: a position takes a carry when some position to its right
\* overflows and every position between the two holds a nine
Plus(a, b) ==
    IF a = <<0>> THEN b
    ELSE IF b = <<0>> THEN a
    ELSE LET n == (IF Len(a) > Len(b) THEN Len(a) ELSE Len(b)) + 1
             x == Pad(n - Len(a)) \o a
             y == Pad(n - Len(b)) \o b
             Carry(i) == \E j \in (i + 1)..n :
                            /\ x[j] + y[j] >= 10
                            /\ \A t \in (i + 1)..(j - 1) : x[t] + y[t] = 9
         IN Strip([i \in 1..n |->
                     (x[i] + y[i] + IF Carry(i) THEN 1 ELSE 0) % 10])

MintOps == {"deploy_and_mint_DAI", "mint_initial_dai_supply"}
\* --dai_supply, in tokens; main() of deploy.py passes 21770
DaiSupplies == {0, 1, 2}
DAI_SUPPLY == 21770
\* the amount parameter: test_deploy passes to_wei(dai_supply), main() the
\* number of tokens
Requested == IF prog = "oneswap" THEN to_wei(Digits(value)) ELSE Digits(value)
\* what mint is called with: amount, or amount_in_wei = amount * 10 ** 18
MintedAmount == IF prog = "oneswap" THEN Requested ELSE Shifted(Requested, 18)

\* "if not totalSupply" / "if not balance_of"
MintNeededBelow(totalSupply, amount_) == Cmp(totalSupply, amount_) < 0
MintNeeded(totalSupply, amount_) == totalSupply = <<0>>

\* a transaction of these coarse steps, already mined
Sent(name, ctor, status, arg) ==
    [ctor |-> ctor, name |-> name, arg |-> arg, status |-> status,
     live |-> TRUE, run |-> run, polled |-> TRUE]

\* an uncaught exception or sys.exit(1): the process ends
Stops(out, e) ==
    /\ outcome' = out
    /\ err' = e
    /\ ret' = None
    /\ pc' = "off"
    /\ state' = EmptyDict
\* the operation goes on to its next call
Proceeds(p) ==
    /\ pc' = p
    /\ UNCHANGED <<outcome, err, ret, state>>
\* the operation returns to the command
Returns(r) ==
    /\ outcome' = "returned"
    /\ err' = NoError
    /\ ret' = r
    /\ pc' = "idle"
    /\ UNCHANGED state
RpcFails(method) ==
    /\ rpcErr' = method
    /\ Stops("raised", Error("KeyError", "result", "", None))

\* the minting begins: the package deploys DAI first unless the state has it
BeginsMint(n) ==
    /\ op' = IF prog = "oneswap" THEN "deploy_and_mint_DAI"
                                 ELSE "mint_initial_dai_supply"
    /\ key' = "DAI"
    /\ value' = n
    /\ outcome' = "running"
    /\ err' = NoError
    /\ ret' = None
    /\ pc' = IF prog = "oneswap" /\ ~IsCached(state, "DAI")
             THEN "mint_deploy" ELSE "mint_check"
    /\ UNCHANGED state

\* the command of a process that only mints
MintDAI ==
    /\ pc = "idle"
    /\ op = "none"
    /\ step = 0
    /\ \E n \in (IF prog = "oneswap" THEN DaiSupplies ELSE {DAI_SUPPLY}) :
         BeginsMint(n)
    /\ UNCHANGED <<run, file, fileStatus, txs, pool, rpcErr, sl, supply,
                   balance, step, args, offpipeline>>

\* smart_deploy('DAI') of a name the state lacks: a new contract, whose total
\* supply is zero
MintDeploy ==
    /\ pc = "mint_deploy"
    /\ \E result \in {"ok", "failed"} :
         LET h == Len(txs) + 1
         IN /\ txs' = Append(txs, Sent("DAI", TRUE, result, 0))
            /\ IF result = "ok"
               THEN /\ Persist("DAI", Record(Str(Hexlify(ContractBytes(h))), h))
                    /\ supply' = <<0>>
                    /\ pc' = "mint_check"
                    /\ UNCHANGED <<outcome, err, ret, rpcErr>>
               ELSE /\ rpcErr' = "query.Tx"
                    /\ Stops("raised", Error("ProtocolAPIError",
                             "Failed to execute smart contract", "", None))
                    /\ UNCHANGED <<file, fileStatus, supply>>
    /\ UNCHANGED <<run, op, key, value, pool, sl, balance, step, args,
                   offpipeline>>

\* get_total_supply / call_method(..., 'totalSupply'), and the test on it
TotalSupply ==
    /\ pc = "mint_check"
    /\ \E answer \in Answers :
         IF HasError(answer)
         THEN RpcFails("query.EVMCall")
         ELSE /\ UNCHANGED rpcErr
              /\ IF MintNeeded(supply, Requested)
                 THEN Proceeds("mint")
                 ELSE Returns(IF prog = "oneswap" THEN state["DAI"].address ELSE None)
    /\ UNCHANGED <<run, op, key, value, file, fileStatus, txs, pool, sl, supply,
                   balance, step, args, offpipeline>>

\* execute_method(..., 'mint', [deployer, amount]): "if not done: sys.exit(1)",
\* in deploy.py "assert done is True"
MintTx ==
    /\ pc = "mint"
    /\ \E result \in {"ok", "failed"} :
         /\ txs' = Append(txs, Sent("mint", FALSE, result,
                               [amount |-> MintedAmount, supply |-> supply]))
         /\ IF result = "ok"
            THEN /\ supply' = Plus(supply, MintedAmount)
                 /\ Proceeds("mint_verify")
                 /\ UNCHANGED rpcErr
            ELSE /\ rpcErr' = "query.Tx"
                 /\ UNCHANGED supply
                 /\ IF prog = "oneswap"
                    THEN Stops("exited", NoError)
                    ELSE Stops("raised",
                               Error("AssertionError", "DAI not minted", "", None))
    /\ UNCHANGED <<run, op, key, value, file, fileStatus, pool, sl, balance,
                   step, args, offpipeline>>

\* the second totalSupply: "if totalSupply < amount: sys.exit(1)", in
\* deploy.py "assert balance_of >= amount"
MintVerify ==
    /\ pc = "mint_verify"
    /\ \E answer \in Answers :
         IF HasError(answer)
         THEN RpcFails("query.EVMCall")
         ELSE /\ UNCHANGED rpcErr
              /\ IF Cmp(supply, Requested) < 0
                 THEN IF prog = "oneswap"
                      THEN Stops("exited", NoError)
                      ELSE Stops("raised",
                                 Error("AssertionError",
                                       "Initial supply not set, revert", "", None))
                 ELSE Returns(IF prog = "oneswap" THEN state["DAI"].address ELSE None)
    /\ UNCHANGED <<run, op, key, value, file, fileStatus, txs, pool, sl, supply,
                   balance, step, args, offpipeline>>

InitMint ==
    /\ prog \in Programs
    /\ run = 1
    /\ pc = "idle"
    /\ op = "none"
    /\ key = ""
    /\ phase = 0
    /\ outcome = "none"
    /\ \/ /\ state = Deployment
          /\ supply \in {<<0>>, <<1>>}
       \/ /\ prog = "oneswap"
          /\ state = Restricted(Deployment, DeployedNames \ {"DAI"})
          /\ supply = <<0>>
    /\ file = state
    /\ fileStatus = "ok"
    /\ txs = <<>>
    /\ pool = "none"
    /\ allowance = 0
    /\ txHash = 0
    /\ repeat_count = 0
    /\ calls = ZeroCalls
    /\ resp = NoResult
    /\ waitRet = NotReturned
    /\ ret = None
    /\ err = NoError
    /\ notMined = 0
    /\ rpcErr = ""
    /\ first = [n \in Names |-> None]
    /\ prior = None
    /\ trail = <<>>
    /\ query = ""
    /\ force = FALSE
    /\ value = 0
    /\ pair = None
    /\ before = <<>>
    /\ after = <<>>
    /\ amount = <<>>
    /\ slippage = <<0, 0>>
    /\ slippaged = NotCalculated
    /\ tokens = <<>>
    /\ sorted = None
    /\ procs = <<>>
    /\ sl = EmptyDict
    /\ balance = 0
    /\ step = 0
    /\ args = None
    /\ paths = <<>>
    /\ WireIdle

NextMint ==
    \/ MintDAI
    \/ MintDeploy
    \/ TotalSupply
    \/ MintTx
    \/ MintVerify
    \/ Exit
    \/ Start

SpecMint == InitMint /\ [][NextMint]_vars

\* ------------------------------------------- oneswap.py: test_deploy
\* The command call by call, from a machine without a state file and without
\* a swap list entry; the processes that follow the first run it again.
\* --initial_liquidity_count, in tokens, against the deployer's balance
InitialLiquidity == 1
Balances == {1, 2}
\* the text test_deploy passes to add_liquidity_OLT as token1: "DAI"
LiquidityToken == <<68, 65, 73>>
\* the calls of test_deploy, in order
Pipeline ==
    <<"check_balance", "WOLT", "UniswapV2Factory", "UniswapV2Router",
      "deploy_and_mint_DAI", "erc20_approve", "erc20_approve",
      "add_liquidity_OLT", "get_pair", "erc20_approve", "sl.add">>

\* cli and the entry of test_deploy
TestDeploy ==
    /\ pc = "off"
    /\ run < MaxRuns
    /\ run' = run + 1
    /\ state' = load_state
    /\ pc' = "idle"
    /\ op' = "test_deploy"
    /\ key' = ""
    /\ outcome' = "running"
    /\ ret' = None
    /\ err' = NoError
    /\ step' = 1
    /\ \E n \in DaiSupplies :
         args' = [initial_liquidity_count |-> InitialLiquidity, dai_supply |-> n]
    /\ UNCHANGED <<file, fileStatus, txs, pool, rpcErr, value, sl, supply,
                   balance, offpipeline>>

\* smart_deploy as one step: the address in the state, or a constructor
\* transaction, its record written when it was mined with success
Deploys(name) ==
    IF IsCached(state, name)
    THEN /\ Proceeds("idle")
         /\ UNCHANGED <<file, fileStatus, txs, rpcErr>>
    ELSE \E result \in {"ok", "failed"} :
           LET h == Len(txs) + 1
           IN /\ txs' = Append(txs, Sent(name, TRUE, result, 0))
              /\ IF result = "ok"
                 THEN /\ Persist(name, Record(Str(Hexlify(ContractBytes(h))), h))
                      /\ pc' = "idle"
                      /\ UNCHANGED <<outcome, err, ret, rpcErr>>
                 ELSE /\ rpcErr' = "query.Tx"
                      /\ Stops("raised", Error("ProtocolAPIError",
                               "Failed to execute smart contract", "", None))
                      /\ UNCHANGED <<file, fileStatus>>

\* erc20_approve as one step: the approval stands or its transaction fails
Approves ==
    \E result \in {"ok", "failed"} :
      IF result = "ok"
      THEN Proceeds("idle") /\ UNCHANGED rpcErr
      ELSE /\ rpcErr' = "query.Tx"
           /\ Stops("raised", Error("AssertionError", "{name} not approved.", "", None))

\* add_liquidity_OLT(token1, ..., force=False): get_reserves calls get_pair,
\* which builds the arguments of getPair with prepare_address(token1) before
\* any request
AddsLiquidity(token1) ==
    IF ~IsHexText(token1)
    THEN /\ Stops("raised", Error("ValueError", "", "", None))
         /\ UNCHANGED <<pool, rpcErr>>
    ELSE \E result \in {"ok", "failed"} :
           IF result = "ok"
           THEN /\ pool' = "funded"
                /\ Proceeds("idle")
                /\ UNCHANGED rpcErr
           ELSE /\ rpcErr' = "query.Tx"
                /\ UNCHANGED pool
                /\ Stops("raised",
                         Error("AssertionError", "Liquidity pair failed", "", None))

\* the next call of test_deploy
TestDeployStep ==
    /\ pc = "idle"
    /\ step \in DOMAIN Pipeline
    /\ step' = step + 1
    /\ LET call == Pipeline[step]
       IN CASE call = "check_balance" ->
                 /\ \E answer \in Answers :
                      IF HasError(answer)
                      THEN RpcFails("query.EVMAccount")
                      ELSE /\ UNCHANGED rpcErr
                           /\ IF balance <= args.initial_liquidity_count
                              THEN Stops("exited", NoError)
                              ELSE Proceeds("idle")
                 /\ UNCHANGED <<op, key, value, file, fileStatus, txs, pool, sl>>
            [] call \in DeployedNames ->
                 /\ Deploys(call)
                 /\ UNCHANGED <<op, key, value, pool, sl>>
            [] call = "deploy_and_mint_DAI" ->
                 /\ BeginsMint(args.dai_supply)
                 /\ UNCHANGED <<file, fileStatus, txs, pool, rpcErr, sl>>
            [] call = "erc20_approve" ->
                 /\ Approves
                 /\ UNCHANGED <<op, key, value, file, fileStatus, txs, pool, sl>>
            [] call = "add_liquidity_OLT" ->
                 /\ AddsLiquidity(LiquidityToken)
                 /\ UNCHANGED <<op, key, value, file, fileStatus, txs, sl>>
            [] call = "get_pair" ->
                 /\ \E answer \in Answers :
                      IF HasError(answer)
                      THEN RpcFails("query.EVMCall")
                      ELSE Proceeds("idle") /\ UNCHANGED rpcErr
                 /\ UNCHANGED <<op, key, value, file, fileStatus, txs, pool, sl>>
            [] call = "sl.add" ->
                 /\ sl' = [n \in Names |-> state[n].address]
                 /\ outcome' = "returned"
                 /\ ret' = None
                 /\ err' = NoError
                 /\ pc' = "off"
                 /\ state' = EmptyDict
                 /\ UNCHANGED <<op, key, value, file, fileStatus, txs, pool, rpcErr>>
    /\ UNCHANGED <<run, supply, balance, args, offpipeline>>

InitTest ==
    /\ prog = "oneswap"
    /\ run = 0
    /\ pc = "off"
    /\ op = "none"
    /\ key = ""
    /\ phase = 0
    /\ outcome = "none"
    /\ state = EmptyDict
    /\ file = EmptyDict
    /\ fileStatus = "missing"
    /\ txs = <<>>
    /\ pool = "none"
    /\ allowance = 0
    /\ txHash = 0
    /\ repeat_count = 0
    /\ calls = ZeroCalls
    /\ resp = NoResult
    /\ waitRet = NotReturned
    /\ ret = None
    /\ err = NoError
    /\ notMined = 0
    /\ rpcErr = ""
    /\ first = [n \in Names |-> None]
    /\ prior = None
    /\ trail = <<>>
    /\ query = ""
    /\ force = FALSE
    /\ value = 0
    /\ pair = None
    /\ before = <<>>
    /\ after = <<>>
    /\ amount = <<>>
    /\ slippage = <<0, 0>>
    /\ slippaged = NotCalculated
    /\ tokens = <<>>
    /\ sorted = None
    /\ procs = <<>>
    /\ sl = EmptyDict
    /\ supply = <<0>>
    /\ balance \in Balances
    /\ step = 0
    /\ args = None
    /\ paths = <<>>
    /\ WireIdle

NextTest ==
    \/ TestDeploy
    \/ TestDeployStep
    \/ MintDeploy
    \/ TotalSupply
    \/ MintTx
    \/ MintVerify

SpecTest == InitTest /\ [][NextTest]_vars
\* the event loop runs the coroutine to its end: a call whose answer has
\* come is followed by the next
SpecTestFair == SpecTest /\ WF_vars(NextTest)

\* One command with its requests recorded: the swap of oneswap.py on a
\* deployed exchange, or the approval and the default liquidity of deploy.py
\* once main() has deployed the contracts.
AmountsOut == {Digits(0), Digits(1), Digits(150), Pow10(18)}
SwapSlippages == {0, 500, 100000}

InitWire ==
    /\ prog \in Programs
    /\ run = 1
    /\ pc = "idle"
    /\ op = "none"
    /\ key = ""
    /\ phase = 0
    /\ outcome = "none"
    /\ state = Deployment
    /\ file = Deployment
    /\ fileStatus = "ok"
    /\ txs = <<>>
    /\ pool \in {"none", "empty", "funded"}
    /\ allowance \in {0, MAX_UINT_VALUE}
    /\ txHash = 0
    /\ repeat_count = 0
    /\ calls = ZeroCalls
    /\ resp = NoResult
    /\ waitRet = NotReturned
    /\ ret = None
    /\ err = NoError
    /\ notMined = 0
    /\ rpcErr = ""
    /\ first = [n \in Names |-> None]
    /\ prior = None
    /\ trail = <<>>
    /\ query = ""
    /\ force = FALSE
    /\ value = 0
    /\ pair = None
    /\ before = <<>>
    /\ after = <<>>
    /\ IF prog = "oneswap"
       THEN /\ amount \in AmountsOut
            /\ slippage \in {<<s, s>> : s \in SwapSlippages}
       ELSE /\ amount = <<>>
            /\ slippage = <<0, 0>>
    /\ slippaged = NotCalculated
    /\ SideIdle
    /\ wire = <<>>
    /\ id = 0
    /\ call_data = None
    /\ params = None
    /\ tasks = <<>>
    /\ initial_data = DEFAULT_DATA

NextWire ==
    \/ (wire = <<>> /\ \E v \in {1, 3} : Swap(v))
    \/ (wire = <<>> /\ \E f \in BOOLEAN : Operation("add_liquidity_OLT", f, 3))
    \/ Gather
    \/ \E t \in {1, 2} : TaskNonce(t)
    \/ \E t \in {1, 2} : TaskCall(t)
    \/ CallNonce
    \/ CallEvm
    \/ SwapDecide
    \/ (op = "none" /\ CheckIsApprovedOrApprove)
    \/ GetAllowance
    \/ (op # "add_default_liquidity_with_eth" /\ AddDefaultLiquidity)
    \/ CallAccount
    \/ GetPair
    \/ GetReserves
    \/ QueryAccount
    \/ CreateRawTx
    \/ (Len(txs) < MaxOpsTx + 1 /\ BroadcastTx)
    \/ PollNotMined
    \/ PollMined
    \/ \E h \in DOMAIN txs : Mine(h)

SpecWire == InitWire /\ [][NextWire]_vars

\* execute_smart_contract called with a dict of the caller's: the dict of
\* the program's own calls, with or without a "nonce" of the caller's choice
GivenNonces == {"", "explicit"}
GivenData ==
    {[(IF prog = "deploy" THEN CallData ELSE DEFAULT_DATA) EXCEPT !.nonce = n] :
        n \in GivenNonces}

InitNonce ==
    /\ prog \in Programs
    /\ run = 1
    /\ pc = "idle"
    /\ op = "none"
    /\ key = ""
    /\ phase = 0
    /\ outcome = "none"
    /\ state = Deployment
    /\ file = Deployment
    /\ fileStatus = "ok"
    /\ txs = <<>>
    /\ pool = "funded"
    /\ allowance = 0
    /\ txHash = 0
    /\ repeat_count = 0
    /\ calls = ZeroCalls
    /\ resp = NoResult
    /\ waitRet = NotReturned
    /\ ret = None
    /\ err = NoError
    /\ notMined = 0
    /\ rpcErr = ""
    /\ first = [n \in Names |-> None]
    /\ prior = None
    /\ trail = <<>>
    /\ query = ""
    /\ force = FALSE
    /\ value = 0
    /\ pair = None
    /\ before = <<>>
    /\ after = <<>>
    /\ amount = <<>>
    /\ slippage = <<0, 0>>
    /\ slippaged = NotCalculated
    /\ SideIdle
    /\ wire = <<>>
    /\ id = 0
    /\ call_data \in GivenData
    /\ params = None
    /\ tasks = <<>>
    /\ initial_data = DEFAULT_DATA

\* execute_smart_contract(..., data) / execute_smart_contract(payload, pk)
ExecuteGiven ==
    /\ pc = "idle"
    /\ op = "none"
    /\ BeginWith("execute_smart_contract", "approve", None, FALSE, 0)
    /\ query' = ""
    /\ Running("account", 0)

NextNonce ==
    \/ ExecuteGiven
    \/ QueryAccount
    \/ CreateRawTx
    \/ (Len(txs) < MaxOpsTx /\ BroadcastTx)
    \/ PollNotMined
    \/ PollMined
    \/ \E h \in DOMAIN txs : Mine(h)

SpecNonce == InitNonce /\ [][NextNonce]_vars


\* ------------------------------------- the slippage functions applied
\* the amounts and the slippages the functions are applied to: slippages in
\* thousandths of a percent, from 0 to 100 as validate_slippage admits them,
\* whose hundredths are binary fractions (a float holds them exactly)
Amounts ==
    {Digits(0), Digits(1), Digits(3), Digits(150), Digits(1000), Pow10(18),
     Pow10(28), Inc(Pow10(28)),
     <<1, 2, 3, 4, 5, 6, 7, 8, 9, 0, 1, 2, 3, 4, 5, 6, 7, 8, 9, 0, 1, 2, 3, 4, 5, 6, 7, 8, 5>>}
Slippages == {0, 495, 500, 1000, 1005, 10000, 50000, 100000}

InitSlip ==
    /\ prog = "oneswap"
    /\ run = 1
    /\ pc = "idle"
    /\ op = "none"
    /\ key = ""
    /\ phase = 0
    /\ outcome = "none"
    /\ state = EmptyDict
    /\ file = EmptyDict
    /\ fileStatus = "missing"
    /\ txs = <<>>
    /\ pool = "none"
    /\ allowance = 0
    /\ txHash = 0
    /\ repeat_count = 0
    /\ calls = ZeroCalls
    /\ resp = NoResult
    /\ waitRet = NotReturned
    /\ ret = None
    /\ err = NoError
    /\ notMined = 0
    /\ rpcErr = ""
    /\ first = [n \in Names |-> None]
    /\ prior = None
    /\ trail = <<>>
    /\ query = ""
    /\ force = FALSE
    /\ value = 0
    /\ pair = None
    /\ before = <<>>
    /\ after = <<>>
    /\ amount \in Amounts
    /\ slippage \in {<<s1, s2>> \in Slippages \X Slippages : s1 <= s2}
    /\ slippaged = NotCalculated
    /\ SideIdle
    /\ WireIdle

\* everything but the results of the calculations
NotSlippaged ==
    <<prog, run, pc, op, key, phase, outcome, state, file, fileStatus, txs,
      pool, txHash, repeat_count, calls, resp, waitRet, ret, err, notMined,
      rpcErr, first, prior, trail, query, force, value, allowance, pair,
      before, after, amount, slippage, tokens, sorted, procs, cmdvars, wirevars>>

\* swap, direction out: amount_out_min for each of the two slippages
CalculateMin ==
    /\ slippaged.min = <<>>
    /\ slippaged' = [slippaged EXCEPT
           !.min = <<calculate_min_slippage_amount(amount, slippage[1]),
                     calculate_min_slippage_amount(amount, slippage[2])>>]
    /\ UNCHANGED NotSlippaged

\* swap, direction in: amount_in_max for each of the two slippages
CalculateMax ==
    /\ slippaged.max = <<>>
    /\ slippaged' = [slippaged EXCEPT
           !.max = <<calculate_max_slippage_amount(amount, slippage[1]),
                     calculate_max_slippage_amount(amount, slippage[2])>>]
    /\ UNCHANGED NotSlippaged

NextSlip ==
    \/ CalculateMin
    \/ CalculateMax

SpecSlip == InitSlip /\ [][NextSlip]_vars

\* ------------------------------------------------------------ sort_tokens
\* the 31 variables of a run and of its operation
mainvars ==
    <<prog, run, pc, op, key, phase, outcome, state, file, fileStatus, txs,
      pool, txHash, repeat_count, calls, resp, waitRet, ret, err, notMined,
      rpcErr, first, prior, trail, query, force, value, allowance, pair,
      before, after>>

\* a process between two commands, nothing deployed, nothing calculated
NoRun ==
    /\ prog = "oneswap"
    /\ run = 1
    /\ pc = "idle"
    /\ op = "none"
    /\ key = ""
    /\ phase = 0
    /\ outcome = "none"
    /\ state = EmptyDict
    /\ file = EmptyDict
    /\ fileStatus = "missing"
    /\ txs = <<>>
    /\ pool = "none"
    /\ allowance = 0
    /\ txHash = 0
    /\ repeat_count = 0
    /\ calls = ZeroCalls
    /\ resp = NoResult
    /\ waitRet = NotReturned
    /\ ret = None
    /\ err = NoError
    /\ notMined = 0
    /\ rpcErr = ""
    /\ first = [n \in Names |-> None]
    /\ prior = None
    /\ trail = <<>>
    /\ query = ""
    /\ force = FALSE
    /\ value = 0
    /\ pair = None
    /\ before = <<>>
    /\ after = <<>>
    /\ amount = <<>>
    /\ slippage = <<0, 0>>
    /\ slippaged = NotCalculated
    /\ CommandIdle
    /\ WireIdle

\* tokenA < tokenB on two str: code point by code point, a proper prefix first
StrLess(tokenA, tokenB) ==
    \/ Len(tokenA) < Len(tokenB) /\ SubSeq(tokenB, 1, Len(tokenA)) = tokenA
    \/ \E i \in 1..Len(tokenA) :
           /\ i <= Len(tokenB)
           /\ SubSeq(tokenA, 1, i - 1) = SubSeq(tokenB, 1, i - 1)
           /\ tokenA[i] < tokenB[i]

sort_tokens(tokenA, tokenB) ==
    IF tokenA = tokenB
    THEN [raised |-> TRUE, msg |-> "Identical addresses", value |-> <<>>]
    ELSE [raised |-> FALSE, msg |-> "",
          value |-> IF StrLess(tokenA, tokenB) THEN <<tokenA, tokenB>>
                                                ELSE <<tokenB, tokenA>>]

\* the texts sort_tokens is applied to: addresses of AddressChars hex
\* characters drawn from 0 9 A B a b, as the swap list or the state file may
\* hold them
AddressChars == 2
HexChars == {48, 57, 65, 66, 97, 98}
AddressTexts == [1..AddressChars -> HexChars]

InitSort ==
    /\ NoRun
    /\ tokens \in AddressTexts \X AddressTexts
    /\ sorted = None
    /\ procs = <<>>

\* lp_info / add_liquidity: sort_tokens(token0, token1)
SortTokens ==
    /\ sorted = None
    /\ sorted' = sort_tokens(tokens[1], tokens[2])
    /\ UNCHANGED <<mainvars, slipvars, tokens, procs, cmdvars, wirevars>>

NextSort == SortTokens

SpecSort == InitSort /\ [][NextSort]_vars

\* --------------------------------------- the status execute returns
\* tx.status values of a mined call: up to StatusLen bytes, among them NUL,
\* the ASCII digit 0, a space, and bytes that are no UTF-8
StatusLen == 2
StatusByteValues == {0, 1, 16, 32, 48, 127, 128, 255}
StatusValues ==
    UNION {[1..n -> StatusByteValues] : n \in 0..StatusLen}

\* the answer to query.Tx for a mined call whose tx.status is the given bytes
StatusResult(bytes) ==
    [code |-> 0, log |-> "", events |-> <<Event(<<Attr("tx.status", bytes)>>)>>]

InitStatus ==
    /\ prog \in Programs
    /\ run = 1
    /\ pc = "poll"
    /\ op = "execute_smart_contract"
    /\ key = "approve"
    /\ phase = 0
    /\ outcome = "running"
    /\ state = EmptyDict
    /\ file = EmptyDict
    /\ fileStatus = "missing"
    /\ txs = <<>>
    /\ pool = "none"
    /\ allowance = 0
    /\ txHash = 1
    /\ repeat_count = DEFAULT_REPEAT_COUNT
    /\ calls = ZeroCalls
    /\ resp \in {StatusResult(bytes) : bytes \in StatusValues}
    /\ waitRet = NotReturned
    /\ ret = None
    /\ err = NoError
    /\ notMined = 0
    /\ rpcErr = ""
    /\ first = [n \in Names |-> None]
    /\ prior = None
    /\ trail = <<>>
    /\ query = ""
    /\ force = FALSE
    /\ value = 0
    /\ pair = None
    /\ before = <<>>
    /\ after = <<>>
    /\ amount = <<>>
    /\ slippage = <<0, 0>>
    /\ slippaged = NotCalculated
    /\ SideIdle
    /\ WireIdle

\* wait_for_tx returns the parsed events of the answer, and
\* execute_smart_contract the status it reads from them
ExecuteStatus ==
    /\ pc = "poll"
    /\ LET events == parse_events(resp.events)
       IN /\ ~CodeFailed(resp.code)
          /\ ~HasTxError(events)
          /\ waitRet' = Returned(events)
          /\ Return(ExecuteValue(events))
    /\ UNCHANGED <<prog, run, op, key, state, file, fileStatus, txs, pool,
                   allowance, calls, resp, notMined, rpcErr, first, prior, trail,
                   query, force, value, pair, before, after, sidevars, wirevars>>

NextStatus == ExecuteStatus

SpecStatus == InitStatus /\ [][NextStatus]_vars

\* ------------------------------------- two runs against one state file
\* two processes started on the same STATE_FILE; each holds its own
\* self._state, the file is the only thing they share, and nothing locks it
Procs == {1, 2}
NotLaunched == [pc |-> "off", state |-> EmptyDict, wrote |-> {}]

InitTwo ==
    /\ NoRun
    /\ tokens = <<>>
    /\ sorted = None
    /\ procs = [p \in Procs |-> NotLaunched]

\* cli: UniswapManager(config.STATE_FILE), then load_state()
Launch(p) ==
    /\ procs[p].pc = "off"
    /\ procs' = [procs EXCEPT ![p].pc = "loaded", ![p].state = load_state]
    /\ UNCHANGED <<mainvars, slipvars, tokens, sorted, cmdvars, wirevars>>

\* a smart_deploy of process p whose transaction was mined:
\* update_state(abi_name, {address, tx_hash}) assigns the record and dumps the
\* whole of self._state over the file; wrote (history) collects the names the
\* process persisted
UpdateState(p, name) ==
    /\ procs[p].pc = "loaded"
    /\ ~IsCached(procs[p].state, name)
    /\ LET st == Assign(procs[p].state, name, Record(Str(Hexlify(ContractBytes(p))), p))
       IN /\ procs' = [procs EXCEPT ![p].state = st,
                                    ![p].wrote = @ \cup {name}]
          /\ file' = Dump(st)
          /\ fileStatus' = "ok"
    /\ UNCHANGED <<prog, run, pc, op, key, phase, outcome, state, txs,
                   pool, txHash, repeat_count, calls, resp, waitRet, ret, err,
                   notMined, rpcErr, first, prior, trail, query, force, value,
                   allowance, pair, before, after, slipvars, tokens, sorted,
                   cmdvars, wirevars>>

\* the command ends and with it the process
Quit(p) ==
    /\ procs[p].pc = "loaded"
    /\ procs' = [procs EXCEPT ![p].pc = "off", ![p].state = EmptyDict]
    /\ UNCHANGED <<mainvars, slipvars, tokens, sorted, cmdvars, wirevars>>

NextTwo ==
    \/ \E p \in Procs : Launch(p)
    \/ \E p \in Procs : \E name \in Names : UpdateState(p, name)
    \/ \E p \in Procs : Quit(p)

SpecTwo == InitTwo /\ [][NextTwo]_vars

\* ---------------------------------------------------------------- claims
DeploysMined(name) ==
    {h \in DOMAIN txs : txs[h].ctor /\ txs[h].name = name /\ txs[h].status = "ok"}

\* C1: a smart_deploy call for a name for which an earlier call (of this run
\* or of an earlier one) already returned an address returns that same address
\* at once: it does not enter the deploy pipeline and issues no RPC request.
C1_SecondCallCached ==
    (op = "smart_deploy" /\ prior # None)
        => (outcome = "returned" /\ ret = prior /\ calls = ZeroCalls)

C1_Witness ==
    /\ op = "smart_deploy"
    /\ outcome = "returned"
    /\ run = 2
    /\ prior # None
    /\ ret = prior
    /\ ret.t = "str"

\* C2: over any sequence of runs, at most one constructor transaction per
\* logical name is ever mined successfully.
C2_AtMostOneDeployMined ==
    \A name \in Names : Cardinality(DeploysMined(name)) <= 1

\* C3: once the constructor transaction of a name was mined successfully while
\* the process ran, a stopped process always leaves a state file that holds a
\* record for that name.
C3_MinedDeployRecorded ==
    pc = "off" =>
        \A h \in DOMAIN txs :
            (txs[h].ctor /\ txs[h].status = "ok" /\ txs[h].live)
                => (fileStatus = "ok" /\ txs[h].name \in DOMAIN file)

Kept(old, new, keys) ==
    \A k \in keys : (k \in DOMAIN old /\ k \in DOMAIN new) => new[k] = old[k]

\* C4 (as stated): no step changes or removes a record of the state file, and
\* no step changes a record of the in-memory mapping.
C4_NeverOverwritten ==
    [][/\ DOMAIN file \subseteq DOMAIN file'
       /\ Kept(file, file', DOMAIN file)
       /\ Kept(state, state', DOMAIN state)]_vars

\* C4 (amended): no step changes or removes a record that smart_deploy wrote
\* (the records of the contract names); only the pair record of deploy.py,
\* UniswapV2PairWOLT2DAI, is rewritten.
C4_DeployRecordsKept ==
    [][/\ (DOMAIN file \ {PairKey}) \subseteq DOMAIN file'
       /\ Kept(file, file', DOMAIN file \ {PairKey})
       /\ Kept(state, state', DOMAIN state \ {PairKey})]_vars

C4_Witness ==
    /\ Names \subseteq DOMAIN file
    /\ PairKey \in DOMAIN file
    /\ file[PairKey] = Record(PairAddr, txHash)
    /\ txHash # 0
    /\ run = 2

\* C5: while a process runs, between any two of its steps the state file holds
\* exactly the in-memory mapping (nothing when the file was missing or broken
\* and no record has been written yet).
C5_Flushed ==
    pc # "off" => state = (IF fileStatus = "ok" THEN file ELSE EmptyDict)

C5_Witness ==
    /\ pc = "idle"
    /\ op = "smart_deploy"
    /\ outcome = "returned"
    /\ calls.broadcast = 1
    /\ Cardinality(DOMAIN state) = 2
    /\ file = state

NoErrorAttr(events) ==
    \A i \in DOMAIN events : \A j \in DOMAIN events[i].attributes :
        events[i].attributes[j].key # "tx.error"

\* the decoded events of a successful result of transaction txHash: the
\* contract address as hex text ("a1" for byte 0xa1) and the status word
ExpectedOkEvents ==
    IF txs[txHash].ctor
    THEN ("tx.contract" :> Str(<<97, 48 + txHash>>)) @@ ("tx.status" :> Str(<<1>>))
    ELSE ("tx.status" :> Str(<<1>>))

\* C6: when query.Tx answers with an error N times and then with a successful
\* result, wait_for_tx has issued exactly N + 1 requests, N below the retry
\* budget, and returns the decoded events of that result.
C6_PollsUntilMined ==
    (resp.code = 0 /\ NoErrorAttr(resp.events))
        => /\ waitRet = Returned(ExpectedOkEvents)
           /\ calls.tx = notMined + 1
           /\ notMined < DEFAULT_REPEAT_COUNT

C6_Witness ==
    /\ resp.code = 0
    /\ NoErrorAttr(resp.events)
    /\ waitRet.returned
    /\ notMined = DEFAULT_REPEAT_COUNT - 1
    /\ calls.tx = DEFAULT_REPEAT_COUNT

TimeoutError ==
    Error(IF prog = "oneswap" THEN "WaitError" ELSE "ValueError",
          "Failed to broadcast tx ({tx_hash})", "tx not found", None)

\* C7: when query.Tx answers with an error for the whole retry budget,
\* wait_for_tx raises the timeout error after exactly DEFAULT_REPEAT_COUNT
\* requests and returns no events; it raises that error in no other case.
C7_TimeoutAfterBudget ==
    /\ notMined >= DEFAULT_REPEAT_COUNT => (outcome = "raised" /\ err = TimeoutError)
    /\ err = TimeoutError
         => /\ calls.tx = DEFAULT_REPEAT_COUNT
            /\ notMined = DEFAULT_REPEAT_COUNT
            /\ waitRet = NotReturned
            /\ resp = NoResult

C7_Witness ==
    /\ prog = "oneswap"
    /\ outcome = "raised"
    /\ err = TimeoutError
    /\ calls.tx = DEFAULT_REPEAT_COUNT

\* C8: every mined result with a nonzero code makes wait_for_tx raise the
\* execution error that carries the chain's log; no events are returned.
C8_NonzeroCodeRaises ==
    (resp # NoResult /\ resp.code # 0)
        => /\ waitRet = NotReturned
           /\ outcome = "raised"
           /\ err = Error(IF prog = "oneswap" THEN "WaitError" ELSE "ValueError",
                          "Failed to execute tx ({tx_hash})", resp.log, None)

\* the values of the tx.error attributes, in the order of the events
RECURSIVE ErrorValues(_)
ErrorValues(events) ==
    IF events = <<>> THEN <<>>
    ELSE SelectSeq(Head(events).attributes, LAMBDA a : a.key = "tx.error")
         \o ErrorValues(Tail(events))

VmError(data) ==
    Error(IF prog = "oneswap" THEN "WaitError" ELSE "ValueError",
          "Failed to execute vm ({tx_hash})", "", data)

C10_CreateErrorSendsNothing ==
    rpcErr = "tx.CreateRawSend"
        => /\ outcome = "raised"
           /\ pc = "off"
           /\ err.kind = (IF prog = "oneswap" THEN "ProtocolAPIError" ELSE "ValueError")
           /\ err.details = "invalid payload"
           /\ calls.create = 1
           /\ calls.broadcast = 0
           /\ calls.tx = 0
           /\ txHash = 0

C10_Witness ==
    /\ rpcErr = "tx.CreateRawSend"
    /\ outcome = "raised"
    /\ calls.account = 1
    /\ calls.broadcast = 0

\* C11: when broadcast.TxSync answers with an error, the operation ends with
\* the broadcast error that carries the node's message; query.Tx is never
\* requested and no record is written for the operation's name.
C11_BroadcastErrorTerminal ==
    rpcErr = "broadcast.TxSync"
        => /\ outcome = "raised"
           /\ pc = "off"
           /\ err.msg = "Failed to broadcast tx"
           /\ err.details = "tx rejected"
           /\ calls.broadcast = 1
           /\ calls.tx = 0
           /\ txHash = 0
           /\ (op = "smart_deploy" => (fileStatus = "ok" => key \notin DOMAIN file))

\* the stages of execute_smart_contract, in the order of the pipeline
Stages == <<"nonce", "tx.CreateRawSend", "sign", "broadcast.TxSync", "query.Tx">>

IsPrefix(s, t) == Len(s) <= Len(t) /\ s = SubSeq(t, 1, Len(s))

\* how the confirmation of a broadcast transaction ended
MinedOk == waitRet.returned
MinedFailed ==
    /\ outcome = "raised"
    /\ err.msg \in {"Failed to execute tx ({tx_hash})", "Failed to execute vm ({tx_hash})"}
TimedOut == outcome = "raised" /\ err.msg = "Failed to broadcast tx ({tx_hash})"

\* C12: an execute operation goes through its stages in the order nonce,
\* tx.CreateRawSend, sign, broadcast.TxSync, query.Tx, none skipped and none
\* entered twice; with one request each for the nonce, the raw transaction
\* and the broadcast; query.Tx is requested only with the hash broadcast
\* returned; and once polling is over (the process not killed) exactly one of
\* mined-ok, mined-failed and timed-out holds.
C12_StagesInOrder ==
    /\ IsPrefix(trail, Stages)
    /\ (trail # <<>> /\ op = "smart_deploy")
          => /\ calls.account = 1
             /\ calls.create = (IF Len(trail) >= 2 THEN 1 ELSE 0)
             /\ calls.broadcast = (IF Len(trail) >= 4 THEN 1 ELSE 0)
    /\ calls.tx > 0 <=> Len(trail) = 5
    /\ Len(trail) = 5 => (txHash \in DOMAIN txs /\ calls.broadcast = 1)
    /\ (Len(trail) = 5 /\ pc # "poll" /\ outcome # "crashed")
          => \/ (MinedOk /\ ~MinedFailed /\ ~TimedOut)
             \/ (~MinedOk /\ MinedFailed /\ ~TimedOut)
             \/ (~MinedOk /\ ~MinedFailed /\ TimedOut)

C12_Witness ==
    /\ trail = Stages
    /\ pc = "off"
    /\ TimedOut
    /\ Len(txs) = 2

\* where a process is while it is inside call_method
CallPcs == {"call_nonce", "call_evm", "gp_account", "gp_call", "gr_account", "gr_call",
            "al_account", "al_call"}

\* a step taken inside call_method leaves the transaction pipeline alone
CallStepSendsNothing ==
    pc \in CallPcs
        => /\ calls'.create = calls.create
           /\ calls'.broadcast = calls.broadcast
           /\ calls'.tx = calls.tx
           /\ trail' = trail
           /\ Len(txs') = Len(txs)

\* C13: no step taken inside call_method requests tx.CreateRawSend,
\* broadcast.TxSync or query.Tx, signs, or adds a transaction to the chain,
\* and an operation made of queries only never does; an error answer to
\* query.EVMCall ends the operation with the API error carrying the node's
\* message; get_token_name returns the decoded output of its one
\* query.EVMCall.
C13_QueryNeverSends ==
    /\ [][CallStepSendsNothing]_vars
    /\ [](op \in QueryOps
            => /\ calls.create = 0 /\ calls.broadcast = 0 /\ calls.tx = 0
               /\ trail = <<>>
               /\ pc \in {"idle", "off", "call_nonce", "call_evm"})
    /\ [](rpcErr = "query.EVMCall"
            => /\ outcome = "raised"
               /\ pc = "off"
               /\ err.kind = (IF prog = "oneswap" THEN "ProtocolAPIError"
                              ELSE "ValueError")
               /\ err.details = "call rejected")
    /\ []((op = "get_token_name" /\ outcome = "returned")
            => (ret = Str(<<68, 65, 73>>) /\ calls.evmcall = 1))

C13_Witness ==
    /\ op = "get_token_name"
    /\ outcome = "returned"
    /\ ret = Str(<<68, 65, 73>>)
    /\ calls.evmcall = 1
    /\ Len(txs) = 1

\* the operations that query an allowance and approve
ApproveOps == {"erc20_approve", "check_is_approved_or_approve"}

\* C14: erc20_approve executes approve exactly when the allowance it queried
\* differs from the target value: when they are equal it returns without
\* tx.CreateRawSend or broadcast.TxSync, when they differ it cannot return
\* without both, and it never executes before the query.  The script's
\* check_is_approved_or_approve likewise sends nothing before the query or
\* when the allowance equals the target, and executes only when they differ.
C14_ApproveOnlyWhenDifferent ==
    op \in ApproveOps
        => /\ before = <<>> => (trail = <<>> /\ pc # "account")
           /\ (before # <<>> /\ before[1] = value)
                => /\ outcome = "returned"
                   /\ calls.create = 0
                   /\ calls.broadcast = 0
                   /\ trail = <<>>
           /\ (trail # <<>> \/ pc = "account") => before[1] # value
           /\ (op = "erc20_approve" /\ before # <<>> /\ before[1] # value)
                => /\ pc = "account" \/ trail # <<>>
                   /\ outcome = "returned"
                        => (calls.create = 1 /\ calls.broadcast = 1 /\ MinedOk)

C14_Witness ==
    /\ op = "erc20_approve"
    /\ before = <<5>>
    /\ value = MAX_UINT_VALUE
    /\ outcome = "returned"
    /\ calls.broadcast = 1
    /\ allowance = MAX_UINT_VALUE

\* C15: once getPair has answered with the zero address, get_reserves returns
\* [0, 0] after that one query.EVMCall; no operation queries getReserves
\* for a pair address of zeros.
C15_NoPairNoReserves ==
    pair = Str(Zeros(40))
        => /\ query # "getReserves"
           /\ op = "get_reserves"
                => /\ outcome = "returned"
                   /\ ret = List(<<0, 0>>)
                   /\ calls.evmcall = 1

C15_Witness ==
    /\ op = "get_reserves"
    /\ pair = Str(Zeros(40))
    /\ outcome = "returned"
    /\ ret = List(<<0, 0>>)

\* C16: add_liquidity and add_liquidity_OLT execute the router call exactly
\* when force is set or both reserves read are zero: otherwise they return
\* without tx.CreateRawSend or broadcast.TxSync; they execute nothing before
\* or against that decision, and when it holds they cannot return without
\* having executed.
C16_AddsOnlyWhenEmptyOrForced ==
    op \in AddOps
        => /\ trail # <<>> => (before # <<>> /\ (force \/ before = <<0, 0>>))
           /\ (before # <<>> /\ ~force /\ before # <<0, 0>>)
                => /\ outcome = "returned"
                   /\ calls.create = 0
                   /\ calls.broadcast = 0
           /\ (before # <<>> /\ (force \/ before = <<0, 0>>) /\ outcome = "returned")
                => (calls.create = 1 /\ calls.broadcast = 1)

C16_Witness ==
    /\ op \in AddOps
    /\ ~force
    /\ before = <<5, 7>>
    /\ outcome = "returned"
    /\ calls.create = 0
    /\ Len(txs) = 1
    /\ txs[1].name \in AddLiquidityFns
    /\ txs[1].status = "ok"

\* C17: an add-liquidity operation that executed the router call and returned
\* has re-read reserves that are both nonzero, after a transaction whose
\* status was true; a zero among the re-read reserves, or a false status,
\* ends the operation with an assertion error.
C17_ReservesFilledOrError ==
    op \in AddOps \cup {"add_default_liquidity_with_eth"}
        => /\ (outcome = "returned" /\ trail # <<>>)
                => /\ Len(after) = 2 /\ after[1] # 0 /\ after[2] # 0
                   /\ waitRet.returned
                   /\ Get(waitRet.events, "tx.status") = Str(StatusOne)
           /\ (after # <<>> /\ (after[1] = 0 \/ after[2] = 0))
                => /\ outcome = "raised"
                   /\ err.kind = "AssertionError"
                   /\ err.msg = (IF after[1] = 0 THEN "reserve0 is zero"
                                 ELSE "reserve1 is zero")
           /\ (waitRet.returned /\ Get(waitRet.events, "tx.status") = Str(StatusZero))
                => /\ outcome = "raised"
                   /\ err.kind = "AssertionError"
                   /\ err.msg = "Liquidity pair failed"
                   /\ after = <<>>

C17_Witness ==
    /\ op \in AddOps
    /\ after = <<5, 0>>
    /\ outcome = "raised"
    /\ err.msg = "reserve1 is zero"
    /\ txs[1].status = "ok"

\* C18: in remove_liquidity, remove_liquidity_OLT and the four swaps the
\* query.EVMCall of the router function comes before the pipeline of the
\* transaction, and when it answers with an error the operation ends with no
\* tx.CreateRawSend and no broadcast.TxSync.
C18_SimulationFirst ==
    op \in SimulatedOps
        => /\ (trail # <<>> \/ pc = "account")
                => (calls.evmcall = 1 /\ rpcErr # "query.EVMCall" /\ query = key)
           /\ rpcErr = "query.EVMCall"
                => /\ outcome = "raised"
                   /\ calls.create = 0
                   /\ calls.broadcast = 0
                   /\ trail = <<>>

C18_Witness ==
    /\ op \in SimulatedOps
    /\ rpcErr = "query.EVMCall"
    /\ outcome = "raised"
    /\ calls.evmcall = 1
    /\ calls.create = 0

\* C19: at the endpoints of the slippage range the amount comes back
\* unchanged or as nothing: the minimum for a slippage of 0 is the amount, the
\* minimum for a slippage of 100 is 0, the maximum for a slippage of 0 is the
\* amount.
C19_SlippageEndpoints ==
    \A i \in 1..2 :
        /\ (slippaged.min # <<>> /\ slippage[i] = 0) => slippaged.min[i] = amount
        /\ (slippaged.min # <<>> /\ slippage[i] = 100000) => slippaged.min[i] = <<0>>
        /\ (slippaged.max # <<>> /\ slippage[i] = 0) => slippaged.max[i] = amount

GivesUp(n, s) ==
    ChangeAbove(Slippaged(n, OneMinus(round2(s))), n, round2(s))

Truncated(n, factor) ==
    LET product == Mul(n, factor)
    IN IF Len(product) <= 4 THEN <<0>> ELSE SubSeq(product, 1, Len(product) - 4)

\* C21: for a slippage of two decimals the minimum returned is
\* amount x (1 - slippage/100) and the maximum returned is
\* amount x (1 + slippage/100), each truncated to an integer.
C21_SlippageFormula ==
    \A i \in 1..2 :
        slippage[i] % 10 = 0
            => /\ slippaged.min # <<>>
                    => slippaged.min[i] = Truncated(amount, 10000 - slippage[i] \div 10)
               /\ slippaged.max # <<>>
                    => slippaged.max[i] = Truncated(amount, 10000 + slippage[i] \div 10)

\* the message the node sends with the error of each method
ChainMessage(method) ==
    CASE method = "tx.CreateRawSend" -> "invalid payload"
      [] method = "broadcast.TxSync" -> "tx rejected"
      [] method = "query.EVMCall" -> "call rejected"
      [] OTHER -> "account not found"

\* C24: an answer with an error field, to any of query.EVMAccount,
\* tx.CreateRawSend, broadcast.TxSync and query.EVMCall, and to the last
\* query.Tx of the polling, ends the operation with an error that carries the
\* node's message.
C24_ErrorsSurface ==
    /\ rpcErr # "" => (outcome = "raised" /\ err.details = ChainMessage(rpcErr))
    /\ TimedOut => err.details = "tx not found"

\* the shape of a contract address: hex digits, two for each byte of the
\* address modelled
IsAddress(v) ==
    /\ v.t = "str"
    /\ Len(v.s) = 2 * Len(ContractBytes(1))
    /\ \A i \in 1..Len(v.s) : v.s[i] \in (48..57) \cup (97..102)

\* C30: every record smart_deploy has persisted, in memory and in the file,
\* and every value it returns is an address of the hex shape; a boolean is
\* never stored or returned in its place.
C30_RecordsAreAddresses ==
    /\ \A n \in Names \cap DOMAIN state : IsAddress(state[n].address)
    /\ \A n \in Names \cap DOMAIN file : IsAddress(file[n].address)
    /\ (op = "smart_deploy" /\ outcome = "returned") => IsAddress(ret)

\* the number a hex text stands for, whatever the case of its letters
HexValue(c) == IF c \in 48..57 THEN c - 48 ELSE IF c \in 65..70 THEN c - 55 ELSE c - 87
RECURSIVE AddressValue(_)
AddressValue(text) ==
    IF text = <<>> THEN 0
    ELSE 16 * AddressValue(Front(text)) + HexValue(text[Len(text)])

\* C25: sort_tokens gives the two addresses ordered by the value of their
\* bytes, the smaller first, whatever the order of the arguments and the case
\* of the hex letters, and rejects two identical addresses.
C25_SortedByValue ==
    sorted # None
        => IF AddressValue(tokens[1]) = AddressValue(tokens[2])
           THEN sorted.raised
           ELSE /\ ~sorted.raised
                /\ AddressValue(sorted.value[1]) < AddressValue(sorted.value[2])

\* a name a process persisted whose record the file no longer holds
Lost(p, name) == name \in procs[p].wrote /\ name \notin DOMAIN file

\* a write of process p: the file becomes exactly the writer's own mapping
WriteReplacesFile ==
    \A p \in Procs :
        procs'[p].wrote # procs[p].wrote => file' = procs'[p].state

\* a record is lost only when another process wrote
LostOnlyToAnother ==
    \A p \in Procs : \A name \in Names :
        Lost(p, name)' => \E q \in Procs \ {p} : procs'[q].wrote # {}

UnguardedWrite == WriteReplacesFile /\ LostOnlyToAnother

\* C29: nothing guards the state file against a second writer: every write
\* replaces the file by the writer's own mapping, whatever the other process
\* persisted since the writer loaded, so that a record one process deployed
\* and persisted can be missing from the file; without a second writer no
\* record is ever lost.
C29_UnguardedWriters ==
    [][UnguardedWrite]_vars

\* both processes loaded an empty file, process 1 persisted WOLT, then the
\* write of process 2 erased it
C29_Witness ==
    /\ procs # <<>>
    /\ Lost(1, "WOLT")
    /\ procs[1].state = ("WOLT" :> Record(Str(Hexlify(ContractBytes(1))), 1))
    /\ procs[2].wrote = {"DAI"}
    /\ file = procs[2].state
    /\ DOMAIN file = {"DAI"}

\* the transactions the running process broadcast
Own == {h \in DOMAIN txs : txs[h].run = run}

SwapRequests ==
    {i \in DOMAIN wire :
        \/ wire[i].method \in {"tx.CreateRawSend", "broadcast.TxSync", "query.Tx"}
        \/ /\ wire[i].method = "query.EVMCall"
           /\ wire[i].params.data = "swapExactETHForTokens"}

\* C22: in the swap command with direction IN a computed minimum of zero
\* ends the command: it returns having sent no request that simulates,
\* creates or broadcasts the swap, and whenever such a request was sent the
\* minimum calculated before was not zero.
C22_ZeroMinimumStops ==
    op = "swap"
        => /\ (slippaged.min # <<>> /\ slippaged.min[1] = <<0>>)
                  => /\ outcome = "returned"
                     /\ pc = "idle"
                     /\ SwapRequests = {}
                     /\ txs = <<>>
           /\ SwapRequests # {}
                  => (slippaged.min # <<>> /\ slippaged.min[1] # <<0>>)

\* the pool quoted a nonzero amount and the slippage took all of it: the
\* command returned after the getAmountsOut query
C22_Witness ==
    /\ op = "swap"
    /\ amount # <<0>>
    /\ slippaged.min # <<>>
    /\ slippaged.min[1] = <<0>>
    /\ outcome = "returned"
    /\ \E i \in DOMAIN wire :
           wire[i].method = "query.EVMCall" /\ wire[i].params.data = "getAmountsOut"

\* the requests that carry a payload
Payloads == {i \in DOMAIN wire : wire[i].method \in {"tx.CreateRawSend", "query.EVMCall"}}

\* a decimal integer string: digits, no leading zero
IsDecimalString(digits) ==
    /\ Len(digits) >= 1
    /\ \A k \in 1..Len(digits) : digits[k] \in 0..9
    /\ Len(digits) > 1 => digits[1] # 0

\* the amount the call of the given contract function is given, in tokens
InputAmount(fn) ==
    CASE fn = "addLiquidityETH" ->
           IF prog = "deploy" THEN <<1, 0, 0, 0, 0, 0, 0>> ELSE Digits(value)
      [] fn = "swapExactETHForTokens" -> Digits(value)
      [] OTHER -> <<0>>

\* n * 10 ^ k on digits
TimesPow10(digits, k) ==
    IF \A i \in 1..Len(digits) : digits[i] = 0 THEN <<0>>
    ELSE [i \in 1..(Len(digits) + k) |-> IF i <= Len(digits) THEN digits[i] ELSE 0]

\* C23: every payload sent to tx.CreateRawSend or query.EVMCall carries
\* amount and gasPrice as {currency, value} pairs whose value is a decimal
\* integer string: the amount of the call in tokens times 10^18, the gas price
\* 1 times 10^9; this holds for every request made from a dict that was
\* passed before, and no operation fails on a dict that was scaled already.
C23_PayloadScaledOnce ==
    /\ \A i \in Payloads :
         LET p == wire[i].params
         IN /\ p.amount.kind = "pair"
            /\ p.amount.currency = "OLT"
            /\ IsDecimalString(p.amount.value)
            /\ p.amount.value = TimesPow10(InputAmount(p.data), 18)
            /\ p.gasPrice.kind = "pair"
            /\ p.gasPrice.currency = "OLT"
            /\ p.gasPrice.value = TimesPow10(<<1>>, 9)
    /\ err.kind # "TypeError"

\* a swap of 1 OLT: the simulation and the transaction made from the same
\* dict both carry the amount 1000000000000000000
C23_Witness ==
    /\ op = "swap"
    /\ value = 1
    /\ \E i, j \in Payloads :
           /\ i < j
           /\ wire[i].method = "query.EVMCall"
           /\ wire[j].method = "tx.CreateRawSend"
           /\ wire[i].params.data = "swapExactETHForTokens"
           /\ wire[j].params.data = "swapExactETHForTokens"
           /\ wire[j].params.amount.value = <<1>> \o Pad(18)
           /\ wire[i].params.amount = wire[j].params.amount

\* C27: no request contains the private key: the address of query.EVMAccount
\* and the "from" of every payload are the address derived from it, and the
\* broadcast request consists of the raw transaction, the signature over it
\* and the public key, nothing else.
C27_KeyStaysLocal ==
    \A i \in DOMAIN wire :
        LET r == wire[i]
        IN CASE r.method = "broadcast.TxSync" ->
                  /\ DOMAIN r.params = {"rawTx", "signature", "publicKey"}
                  /\ r.params.rawTx.kind = "raw_tx"
                  /\ r.params.signature.kind = "signature"
                  /\ r.params.signature.over = r.params.rawTx
                  /\ DOMAIN r.params.publicKey = {"keyType", "data"}
                  /\ r.params.publicKey.data.kind = "public_key"
             [] r.method = "query.EVMAccount" ->
                  /\ DOMAIN r.params = {"address", "blockTag"}
                  /\ r.params.address.kind = "address"
             [] r.method = "query.Tx" ->
                  DOMAIN r.params = {"hash", "prove"}
             [] OTHER ->
                  /\ r.params.from.kind = "address"
                  /\ DOMAIN r.params = {"from", "to", "amount", "gas", "gasPrice",
                                        "data", "nonce"}

\* a signed transaction was broadcast
C27_Witness ==
    \E i \in DOMAIN wire :
        /\ wire[i].method = "broadcast.TxSync"
        /\ wire[i].params.signature.owner = DEPLOYER_PK.owner
        /\ \E j \in 1..(i - 1) : wire[j].method = "tx.CreateRawSend"

\* C28: the k-th request a process sends carries id k, so that no two of its
\* requests carry the same id, those of a gather included.
C28_IdsCount ==
    \A i \in DOMAIN wire : wire[i].id = i

\* the same for the Client of the package alone
C28_ClientIdsCount ==
    prog = "oneswap" => \A i \in DOMAIN wire : wire[i].id = i

\* both coroutines of a gather have a request in flight
C28_InFlight ==
    /\ tasks # <<>>
    /\ \A t \in DOMAIN tasks : tasks[t] \in {"nonce", "call"}
    /\ pc = "gather"

\* the requests of a method among those sent
Requests(method) == {i \in DOMAIN wire : wire[i].method = method}

\* C31: execute_smart_contract sends query.EVMAccount exactly when the dict
\* it was given has no "nonce"; the raw transaction is created with the
\* caller's nonce when there is one, and with the fetched one otherwise.
C31_NonceQueriedWhenAbsent ==
    (op = "execute_smart_contract" /\ params # None) =>
        /\ (Requests("query.EVMAccount") # {}) <=> ~HasNonce(call_data)
        /\ \A i \in Requests("tx.CreateRawSend") :
               wire[i].params.nonce =
                   IF HasNonce(call_data) THEN call_data.nonce ELSE "latest"

\* the same for the Client of the package alone
C31_ClientNonceQueriedWhenAbsent ==
    prog = "oneswap" => C31_NonceQueriedWhenAbsent

\* the raw transaction was created with the caller's nonce, no account queried
C31_ExplicitSent ==
    /\ op = "execute_smart_contract"
    /\ HasNonce(call_data)
    /\ Requests("query.EVMAccount") = {}
    /\ \E i \in Requests("tx.CreateRawSend") : wire[i].params.nonce = "explicit"

\* an execute that follows a simulation fetches the nonce again: the request
\* before every tx.CreateRawSend is a query.EVMAccount
C31_SimulationNonceNotReused ==
    \A i \in Requests("tx.CreateRawSend") :
        /\ i > 1
        /\ wire[i - 1].method = "query.EVMAccount"
        /\ wire[i].params.nonce = "latest"

\* the bytes of the tx.status attribute of the answer
StatusBytes == resp.events[1].attributes[1].value

\* C32: for a mined call (no tx.contract in its events) the status execute
\* returns is False when every byte of the tx.status value is zero, and True
\* when one of them is not.
C32_StatusFalseIffZeroBytes ==
    (op = "execute_smart_contract" /\ outcome = "returned" /\ resp.events # <<>>) =>
        ret = Bool(\E i \in DOMAIN StatusBytes : StatusBytes[i] # 0)

\* True was returned for a status that ends in a zero byte and is no UTF-8
C32_Witness ==
    /\ op = "execute_smart_contract"
    /\ outcome = "returned"
    /\ resp.events # <<>>
    /\ StatusBytes = <<128, 0>>
    /\ ret = Bool(TRUE)

\* False was returned for a status of two zero bytes
C32_ZeroStatus ==
    /\ op = "execute_smart_contract"
    /\ outcome = "returned"
    /\ resp.events # <<>>
    /\ StatusBytes = <<0, 0>>
    /\ ret = Bool(FALSE)

\* a step of the deploy pipeline of smart_deploy that ends it with an error
\* raised, or with a mined result whose code is not zero
DeployRaises ==
    /\ op = "smart_deploy"
    /\ outcome = "running"
    /\ outcome' = "raised"
DeployFails ==
    \/ DeployRaises
    \/ /\ op = "smart_deploy"
       /\ outcome = "running"
       /\ resp' # NoResult
       /\ resp'.code # 0

\* the mapping (which ends with the process when the error is not caught)
\* and the file are as they were
StateKept ==
    /\ state' \in {state, EmptyDict}
    /\ file' = file
    /\ fileStatus' = fileStatus
FailedDeployKeepsState == DeployFails => StateKept
RaisedDeployKeepsState == DeployRaises => StateKept

\* C33: a deploy pipeline of smart_deploy that ends with a rejected raw
\* transaction, a rejected broadcast, a confirmation timeout, a nonzero code
\* or a tx.error event changes neither the state mapping nor the state file.
C33_FailedDeployKeepsState == [][FailedDeployKeepsState]_vars

\* the same for the pipelines that end with an exception
C33_RaisedDeployKeepsState == [][RaisedDeployKeepsState]_vars

\* the contract functions whose operation writes an amount into its dict
AmountFns == {"addLiquidityETH", "swapExactETHForTokens"}

\* C39: whatever the operations of the package have done, the manager's
\* template is amount "0", gas 10000000, gasPrice "1000000000", and only the
\* requests of an operation that set an amount carry one: every other
\* payload, before or after, has the amount "0".
C39_TemplateUnchanged ==
    prog = "oneswap" =>
        /\ initial_data.amount = Coin(<<0>>)
        /\ initial_data.gas = 10000000
        /\ initial_data.gasPrice = Coin(<<1, 0, 0, 0, 0, 0, 0, 0, 0, 0>>)
        /\ get_initial_data = DEFAULT_DATA
        /\ \A i \in Payloads :
               wire[i].params.data \notin AmountFns
                   => wire[i].params.amount = Coin(<<0>>)

\* add_liquidity_OLT sent its transaction with the amount, and the reserves
\* were read again after it with a payload whose amount is "0"
C39_Witness ==
    /\ prog = "oneswap"
    /\ op = "add_liquidity_OLT"
    /\ \E i, j \in Payloads :
           /\ i < j
           /\ wire[i].method = "tx.CreateRawSend"
           /\ wire[i].params.amount = Coin(<<3>> \o Pad(18))
           /\ wire[j].method = "query.EVMCall"
           /\ wire[j].params.data = "getReserves"
           /\ wire[j].params.amount = Coin(<<0>>)

\* a run whose load of the state file failed goes on with an empty mapping
\* until it writes
LoadFailedEmpty ==
    (pc # "off" /\ fileStatus # "ok") => state = EmptyDict
\* in such a run smart_deploy enters the deploy pipeline
DeploysAnew ==
    (pc = "idle" /\ fileStatus # "ok" /\ op' = "smart_deploy" /\ pc' # "idle")
        => (pc' = "account" /\ outcome' = "running")
\* the write of its first deploy leaves one record in the file, that of the
\* transaction this run broadcast
FirstWriteReplaces ==
    (fileStatus # "ok" /\ fileStatus' = "ok")
        => /\ op = "smart_deploy"
           /\ DOMAIN file' = {key}
           /\ file' = state'
           /\ file'[key].tx_hash \in DOMAIN txs
           /\ txs[file'[key].tx_hash].run = run
           /\ txs[file'[key].tx_hash].name = key
LoadFailureStep == LoadFailedEmpty /\ DeploysAnew /\ FirstWriteReplaces

\* C38: a run that finds the state file missing or unparseable goes on with
\* an empty mapping, its smart_deploy calls deploy, and its first successful
\* deploy replaces the file by the one record created in this run.
C38_LoadFailureStartsAnew == [][LoadFailureStep]_vars

\* the first run found a broken or missing file, deployed DAI and wrote it
C38_Witness ==
    /\ run = 1
    /\ op = "smart_deploy"
    /\ outcome = "returned"
    /\ fileStatus = "ok"
    /\ DOMAIN file = {"DAI"}
    /\ file["DAI"] # StaleRecords["DAI"]
    /\ IsAddress(file["DAI"].address)

\* the addresses each operation of UniswapManager reads at its top: from the
\* state with _get_state, from the swap list with sl.get
NeedsState(o) ==
    CASE o \in {"erc20_approve", "get_token_name"} -> {}
      [] o = "get_reserves" -> {"UniswapV2Factory"}
      [] o \in {"add_liquidity_OLT", "remove_liquidity_OLT"} ->
             {"UniswapV2Factory", "UniswapV2Router", "WOLT"}
      [] o \in {"add_liquidity", "remove_liquidity"} ->
             {"UniswapV2Factory", "UniswapV2Router"}
      [] OTHER -> {"UniswapV2Router"}
NeedsList(o) ==
    IF o \in {"swap_tokens_for_exact_OLT", "swap_exact_OLT_for_tokens"}
    THEN {"WOLT"}
    ELSE {}
Lacks(o) ==
    \/ \E n \in NeedsState(o) : n \notin DOMAIN state
    \/ \E n \in NeedsList(o) : n \notin DOMAIN sl
\* an operation that finds an address missing ends the process at once
MissingStops ==
    (pc = "idle" /\ op' \in PkgOps \cup QuoteOps /\ Lacks(op'))
        => /\ outcome' = "exited"
           /\ pc' = "off"
           /\ calls' = ZeroCalls
           /\ txs' = <<>>
           /\ file' = file
           /\ fileStatus' = fileStatus
           /\ sl' = sl
\* smart_deploy of a name the state lacks goes on to deploy it
AbsentDeploys ==
    (pc = "idle" /\ op' = "smart_deploy" /\ key' \notin DOMAIN state)
        => (outcome' = "running" /\ pc' = "account")
\* and nothing follows the exit
ExitedIsLast == outcome # "exited"
LookupStep == MissingStops /\ AbsentDeploys /\ ExitedIsLast

\* C34: smart_deploy of a key the state lacks proceeds to deploy; an
\* operation that needs an address the state or the swap list lacks exits
\* before any request, leaving the state file as it was.
C34_MissingAddressStops == [][LookupStep]_vars

\* swap_exact_OLT_for_tokens exited on a swap list without WOLT although the
\* state holds the router; no request was sent
C34_Witness ==
    /\ op = "swap_exact_OLT_for_tokens"
    /\ outcome = "exited"
    /\ "UniswapV2Router" \in DOMAIN file
    /\ "WOLT" \notin DOMAIN sl
    /\ calls = ZeroCalls
\* smart_deploy of DAI, absent from the state, sent its transaction
C34_Deployed ==
    /\ op = "smart_deploy"
    /\ key = "DAI"
    /\ prior = None
    /\ outcome = "returned"
    /\ Len(txs) = 1

\* the swap list entry of a name given to the command: WOLT stands for OLT
Wrapped(name) == IF name = "OLT" THEN "WOLT" ELSE name
SoldToBought(path) ==
    /\ Len(path) = 2
    /\ path[1] = prepare_address(sl[Wrapped(args.name0)].s)
    /\ path[2] = prepare_address(sl[Wrapped(args.receive)].s)

C37_OltSold ==
    /\ step = 5
    /\ args.name0 = "OLT"
    /\ args.name1 = "OLT"
    /\ args.receive = "DAI"
    /\ args.direction = "OUT"
    /\ op = "swap_exact_OLT_for_tokens"
\* swap --name0 OLT --name1 OLT ends in the look-up of OLT in the swap list
C37_OltForOlt ==
    /\ args.name0 = "OLT"
    /\ args.receive = "OLT"
    /\ outcome = "exited"
    /\ paths = <<>>

\* the mint transactions, in the order they were sent
Mints == {h \in DOMAIN txs : txs[h].name = "mint"}
MintedThisRun == \E h \in Mints : txs[h].run = run /\ txs[h].status = "ok"
\* a mint is sent only on a total supply of zero
MintOnZeroSupply == \A h \in Mints : txs[h].arg.supply = <<0>>
\* a normal return after minting: the supply is at least the amount asked for
MintedEnough ==
    (op \in MintOps /\ outcome = "returned" /\ MintedThisRun)
        => Cmp(supply, Requested) >= 0

C35_DeployMinted ==
    /\ prog = "deploy"
    /\ op = "mint_initial_dai_supply"
    /\ outcome = "returned"
    /\ MintedThisRun
    /\ supply = Shifted(Digits(DAI_SUPPLY), 18)
\* --dai_supply 0: the mint of nothing succeeded in the first run and a mint
\* is sent again in the second
C35_ZeroMintedTwice ==
    /\ run = 2
    /\ \E g, h \in Mints :
          /\ txs[g].run = 1
          /\ txs[g].status = "ok"
          /\ txs[g].arg.amount = <<0>>
          /\ txs[h].run = 2

\* test_deploy ran to its end: the contracts are in the state file, the pair
\* holds the initial liquidity and the swap list names both tokens
TestDeployed ==
    /\ DeployedNames \subseteq DOMAIN file
    /\ pool = "funded"
    /\ Names \subseteq DOMAIN sl
\* an RPC call failed or a transaction was not mined with success
Faulted == rpcErr # ""

\* C36: from an empty state and a balance above the initial liquidity,
\* unless a request or a transaction fails, test_deploy eventually has
\* deployed the contracts, added the liquidity and filled the swap list.
C36_TestDeployCompletes ==
    (run = 0 /\ balance > InitialLiquidity) ~> (TestDeployed \/ Faulted)

\* the swap list is written only after the liquidity was added
C36_ListAfterLiquidity == (sl # EmptyDict) => pool = "funded"

\* without a fault the first run deployed and minted, approved twice and
\* ended in add_liquidity_OLT with ValueError
C36_EndsInAddLiquidity ==
    /\ run = 1
    /\ ~Faulted
    /\ pc = "off"
    /\ outcome = "raised"
    /\ err.kind = "ValueError"
    /\ Pipeline[step - 1] = "add_liquidity_OLT"
    /\ DeployedNames \subseteq DOMAIN file
    /\ supply = to_wei(Digits(2))
    /\ pool = "none"
    /\ sl = EmptyDict

====
